---- MODULE Spec2Model ----
(***************************************************************************)
(* Model of the XMR-maker side of one atomic swap (package xmrmaker,       *)
(* swapState) together with the swap manager (package swap, manager) it    *)
(* writes through, the recovery database and the Monero / EVM outcomes     *)
(* the handlers depend on.                                                 *)
(*                                                                         *)
(* The functions of swapState are operators over a "world" record W that   *)
(* holds every variable; an action applies one or more of them and then    *)
(* assigns the resulting record to the primed variables (Set).             *)
(***************************************************************************)
EXTENDS Naturals, Sequences, FiniteSets, TLC

\* ------------------------------------------------------------------ bounds
\* number of Exit() calls made by the network layer / the RPC front-end
MaxExits == 2
\* number of NotifyETHLocked messages the peer sends
MaxPeerMsgs == 2
\* number of times the watcher delivers a Ready (or t0) / Refunded event
MaxLogEvents == 1

\* number of times the daemon is killed and restarted
MaxCrashes == 1
\* claim requests sent to the relayer
MaxRelayCalls == 2
\* logs FilterLogs returns to checkIfAlreadyClaimed
MaxLogs == 2
\* names in cfg.Namespaces
MaxNamespaces == 3
\* block time runs from 0 to MaxTime
MaxTime == 5
\* timeout durations given to newSwap (1..MaxDur)
MaxDur == 2

\* offer ids the manager is called with (1..MaxOfferIDs)
MaxOfferIDs == 2
\* Info objects alive in memory at a time (pointers 1..MaxInfos)
MaxInfos == 2
\* goroutines calling the manager concurrently
MaxThreads == 2

\* external senders created in the process (1..MaxSenders)
MaxSenders == 2
\* goroutines calling an external sender, one call each
MaxCallers == 2

\* ------------------------------------------------------- program constants
\* eventCh: make(chan Event, 1)
EventChCap == 1
\* transactionTimeout = time.Minute * 2, in minutes
DevTimeout == 2
\* transactionTimeout = time.Hour, in minutes
MainTimeout == 60

OfferID == "offer"
Nil == "nil"
\* what the database holds for an offer id it has no record of
NoRecord == [Status |-> "none", EndTime |-> FALSE]

Terminal == {"CompletedSuccess", "CompletedRefund", "CompletedAbort"}

\* db.EthereumSwapInfo records the recovery database can hold for the swap:
\* start block, contract swap id, timeouts
EthSwapInfos == {[StartNumber |-> 1, SwapID |-> 1, Timeout0 |-> 1, Timeout1 |-> 2],
                 [StartNumber |-> 2, SwapID |-> 2, Timeout0 |-> 3, Timeout1 |-> 4]}
NoEthSwapInfo == [StartNumber |-> 0, SwapID |-> 0, Timeout0 |-> 0, Timeout1 |-> 0]

\* no recovery has run
NoRecovery == [path |-> "none", stage |-> "none", claimed |-> FALSE, status |-> "none",
               e |-> NoEthSwapInfo, envOk |-> TRUE]

\* a state machine that newSwapStateFromOngoing did not build
NoSM == [watchFrom |-> 0, contractSwapID |-> 0, t0 |-> 0, t1 |-> 0]
\* the contract before newSwap; last / ok / at / pre record the last call, whether
\* it succeeded, the block time of the call and the stage it found
NoContract == [stage |-> "Invalid", now |-> 0, t0 |-> 0, t1 |-> 0,
               last |-> "none", ok |-> FALSE, at |-> 0, pre |-> "Invalid"]
\* rpc.NewServer not called yet; order is the order in which the range over
\* cfg.Namespaces visited the names, fail the namespace whose RegisterService fails
NoServer == [called |-> FALSE, order |-> <<>>, fail |-> "none", daemonOk |-> TRUE,
             err |-> "nil", cancelled |-> FALSE, listening |-> FALSE, server |-> FALSE]
\* checkIfAlreadyClaimed not called yet
NoCheck == [called |-> FALSE, stage |-> "none", logs |-> <<>>, claimed |-> FALSE, err |-> "nil"]
\* a relayer that has handled no request; logs counts the Claimed logs of
\* the transactions it submitted
NoRelay == [calls |-> 0, valid |-> FALSE, submitted |-> 0, logs |-> 0, resp |-> "none"]

\* types.Status.IsOngoing
IsOngoing(st) == st \notin Terminal

VARIABLES
    pc,                 \* "init" | "constructed" | "live" | "failed"
    hpc,                \* event handler goroutine: "idle" | "exitWait" (blocked in exit() on <-s.eventCh)
    eventCh,            \* s.eventCh, a sequence of event types
    nextExpectedEvent,  \* s.nextExpectedEvent
    info,               \* *pswap.Info shared by s.info and the manager's maps: [Status, EndTime]
    privkeys,           \* s.privkeys # nil
    takerKeys,          \* s.xmrtakerPublicSpendKey / s.xmrtakerPrivateViewKey # nil
    contractSet,        \* s.contractSwapID has been set (ETH lock accepted)
    cancelled,          \* s.cancel() has run
    doneCloses,         \* number of close(s.done) executed (2 is a panic)
    ongoing,            \* keys of manager.ongoing
    past,               \* keys of manager.past
    db,                 \* swap.Database record of the offer id: NoRecord or [Status, EndTime]
    rdb,                \* RecoveryDB record kinds stored for the offer id
    offers,             \* offer ids present in the offer manager
    xmr,                \* joint Monero output: "none" | "locked" | "swept"
    chain,              \* contract stage of the swap: "Invalid" | "Pending" | "Ready" | "Claimed" | "Refunded"
    err,                \* error returned by the last operation
    exitsCalled,        \* Exit() calls issued so far
    exitsReturned,      \* Exit() calls whose reply channel was answered
    peerMsgs,           \* NotifyETHLocked messages delivered so far
    readyEvents,        \* EventContractReady deliveries so far
    refundEvents,       \* EventETHRefunded deliveries so far
    lockLog,            \* history: one record per lockFunds call
    reclaimLog,         \* history: one record per reclaimMonero call
    purgedWith,         \* history: statuses at which RecoveryDB.DeleteSwap was called
    cancelledWith,      \* history: statuses at which s.cancel() ran
    completeCalls,      \* history: CompleteOngoingSwap calls
    completeOK,         \* history: CompleteOngoingSwap calls that returned nil
    exitRuns,           \* history: exit() executions that returned
    crashes,            \* times the daemon was killed so far
    rop,                \* inputs of the last recovery of the swap (createOngoingSwap)
    sm,                 \* what newSwapStateFromOngoing put in the state machine it built
    rly,                \* the relayer: claim requests handled, transactions submitted, last answer
    cic,                \* the last checkIfAlreadyClaimed call: what the chain held, what it returned
    srv,                \* the last rpc.NewServer call: its configuration and what it left
    tc                  \* the contract swap with its clock: stage, t0, t1, the last call and its time

\* The manager on its own, called with several offer ids and Info pointers.
VARIABLES
    mgrUp,              \* NewManager has returned a manager
    heap,               \* Info objects by pointer: [OfferID, Status, EndTime], NoInfo when free
    mOngoing,           \* manager.ongoing: offer id -> pointer, 0 when the id is not a key
    mPast,              \* manager.past: offer id -> pointer, 0 when the id is not a key
    mdb,                \* Database: offer id -> stored record, NoRecord when there is none
    mop,                \* the call made by the last step and its inputs
    mret                \* what that call returned

\* The manager's RWMutex and the map accesses of concurrent callers.
VARIABLES
    rwWriter,           \* goroutine holding the exclusive lock, 0 when none
    rwReaders,          \* goroutines holding the read lock
    th                  \* per goroutine: the call it is in, its position, the map access it is performing

mgrVars == <<mgrUp, heap, mOngoing, mPast, mdb, mop, mret>>
rwVars == <<rwWriter, rwReaders, th>>

\* the external senders of the process, their callers and the front-end
VARIABLES
    transactionTimeout, \* package variable: minutes the user has to sign
    snd,                \* sender -> [up, env, holder]; holder is the caller holding its Mutex
    scall,              \* caller -> its call: position, sender, operation, result, history
    fe                  \* sender -> callers whose transaction the front-end read from out and has not answered

sndVars == <<transactionTimeout, snd, scall, fe>>

OfferIDs == 1..MaxOfferIDs
Ptrs == 1..MaxInfos
Threads == 1..MaxThreads

\* a free slot of the heap
NoInfo == [OfferID |-> 0, Status |-> "none", EndTime |-> FALSE]
\* no record returned
NoHandle == [kind |-> "none", ptr |-> 0, val |-> NoInfo]
NoOp == [name |-> "none", id |-> 0, ptr |-> 0, ok |-> TRUE]
NoRet == [err |-> Nil, h |-> NoHandle, hs |-> [i \in OfferIDs |-> NoHandle],
          ids |-> <<>>, has |-> FALSE, read |-> FALSE]
\* a goroutine outside any manager call
NoCall == [op |-> "none", i |-> 0, acc |-> "none"]

\* the manager before NewManager: nothing in memory, nothing stored
MgrIdle ==
    /\ mgrUp = FALSE
    /\ heap = [p \in Ptrs |-> NoInfo]
    /\ mOngoing = [i \in OfferIDs |-> 0]
    /\ mPast = [i \in OfferIDs |-> 0]
    /\ mdb = [i \in OfferIDs |-> NoRecord]
    /\ mop = NoOp
    /\ mret = NoRet

Senders == 1..MaxSenders
Callers == 1..MaxCallers
\* a sender that was not created
NoSender == [up |-> FALSE, env |-> "none", holder |-> 0]
\* a goroutine that has not called a sender; timer is the duration given to
\* time.After, locked / sent / waited record what the call did
\* hashOf is the caller whose transaction the received hash belongs to
NoSend == [pc |-> "idle", s |-> 0, op |-> "none", token |-> FALSE, ret |-> "none",
           timer |-> 0, locked |-> FALSE, sent |-> FALSE, waited |-> FALSE, hashOf |-> 0]

\* the package as loaded: no sender, the two-minute timeout
SndIdle ==
    /\ transactionTimeout = DevTimeout
    /\ snd = [s \in Senders |-> NoSender]
    /\ scall = [c \in Callers |-> NoSend]
    /\ fe = [s \in Senders |-> {}]

\* the lock free, no goroutine in a call
RWIdle ==
    /\ rwWriter = 0
    /\ rwReaders = {}
    /\ th = [t \in Threads |-> NoCall]

swapVars == <<pc, hpc, eventCh, nextExpectedEvent, info, privkeys, takerKeys, contractSet,
              cancelled, doneCloses, ongoing, past, db, rdb, offers, xmr, chain, err,
              exitsCalled, exitsReturned, peerMsgs, readyEvents, refundEvents, lockLog, reclaimLog,
              purgedWith, cancelledWith, completeCalls, completeOK, exitRuns,
              crashes, rop, sm, rly, cic, srv, tc>>

vars == <<swapVars, mgrVars, rwVars, sndVars>>

\* the world record the operators below transform
W == [pc |-> pc, hpc |-> hpc, eventCh |-> eventCh, nextExpectedEvent |-> nextExpectedEvent,
      info |-> info, privkeys |-> privkeys, takerKeys |-> takerKeys, contractSet |-> contractSet,
      cancelled |-> cancelled, doneCloses |-> doneCloses, ongoing |-> ongoing, past |-> past,
      db |-> db, rdb |-> rdb, offers |-> offers, xmr |-> xmr, chain |-> chain, err |-> err,
      exitsCalled |-> exitsCalled, exitsReturned |-> exitsReturned, peerMsgs |-> peerMsgs, readyEvents |-> readyEvents,
      refundEvents |-> refundEvents, lockLog |-> lockLog, reclaimLog |-> reclaimLog,
      purgedWith |-> purgedWith, cancelledWith |-> cancelledWith,
      completeCalls |-> completeCalls, completeOK |-> completeOK, exitRuns |-> exitRuns,
      crashes |-> crashes, rop |-> rop, sm |-> sm, rly |-> rly, cic |-> cic, srv |-> srv, tc |-> tc]

Set(w) ==
    /\ pc' = w.pc /\ hpc' = w.hpc /\ eventCh' = w.eventCh
    /\ nextExpectedEvent' = w.nextExpectedEvent /\ info' = w.info
    /\ privkeys' = w.privkeys /\ takerKeys' = w.takerKeys /\ contractSet' = w.contractSet
    /\ cancelled' = w.cancelled /\ doneCloses' = w.doneCloses
    /\ ongoing' = w.ongoing /\ past' = w.past /\ db' = w.db /\ rdb' = w.rdb
    /\ offers' = w.offers /\ xmr' = w.xmr /\ chain' = w.chain /\ err' = w.err
    /\ exitsCalled' = w.exitsCalled /\ exitsReturned' = w.exitsReturned
    /\ peerMsgs' = w.peerMsgs
    /\ readyEvents' = w.readyEvents /\ refundEvents' = w.refundEvents
    /\ lockLog' = w.lockLog /\ reclaimLog' = w.reclaimLog
    /\ purgedWith' = w.purgedWith /\ cancelledWith' = w.cancelledWith
    /\ completeCalls' = w.completeCalls /\ completeOK' = w.completeOK
    /\ exitRuns' = w.exitRuns
    /\ crashes' = w.crashes /\ rop' = w.rop /\ sm' = w.sm /\ rly' = w.rly
    /\ cic' = w.cic /\ srv' = w.srv /\ tc' = w.tc
    /\ UNCHANGED <<mgrVars, rwVars, sndVars>>

\* ------------------------------------------------------------ swap manager
\* Database.PutSwap(info): the write either succeeds or fails
PutSwap(w, ok) ==
    IF ok THEN [w EXCEPT !.db = w.info, !.err = Nil]
          ELSE [w EXCEPT !.err = "StorageFailed"]

\* manager.AddSwap
AddSwap(w, ok) ==
    LET w1 == IF IsOngoing(w.info.Status)
                THEN [w EXCEPT !.ongoing = w.ongoing \cup {OfferID}]
                ELSE [w EXCEPT !.past = w.past \cup {OfferID}]
    IN PutSwap(w1, ok)

\* manager.WriteSwapToDB
WriteSwapToDB(w, ok) == PutSwap(w, ok)

\* variant of CompleteOngoingSwap that does not look the id up in ongoing first
CompleteOngoingSwap_NoLookup(w, ok) ==
    LET w0 == [w EXCEPT !.completeCalls = w.completeCalls + 1]
        w1 == [w0 EXCEPT !.info.EndTime = TRUE,
                         !.past = w0.past \cup {OfferID},
                         !.ongoing = w0.ongoing \ {OfferID}]
        w2 == PutSwap(w1, ok)
    IN [w2 EXCEPT !.completeOK = IF ok THEN w2.completeOK + 1 ELSE w2.completeOK]

\* manager.CompleteOngoingSwap
CompleteOngoingSwap(w, ok) ==
    LET w0 == [w EXCEPT !.completeCalls = w.completeCalls + 1]
    IN IF OfferID \notin w0.ongoing
         THEN [w0 EXCEPT !.err = "NoSwapWithID"]
         ELSE LET w1 == [w0 EXCEPT !.info.EndTime = TRUE,
                                   !.past = w0.past \cup {OfferID},
                                   !.ongoing = w0.ongoing \ {OfferID}]
                  w2 == PutSwap(w1, ok)
              IN [w2 EXCEPT !.completeOK = IF ok THEN w2.completeOK + 1 ELSE w2.completeOK]

\* ------------------------------------------------------------ recovery DB
\* RecoveryDB.Put*: stores one record kind for the offer id, or fails
RdbPut(w, kind, ok) ==
    IF ok THEN [w EXCEPT !.rdb = w.rdb \cup {kind}, !.err = Nil]
          ELSE [w EXCEPT !.err = "RecoveryDBFailed"]

\* RecoveryDB.DeleteSwap: removes every record kind of the offer id
RdbDeleteSwap(w, ok) ==
    LET w1 == [w EXCEPT !.purgedWith = w.purgedWith \cup {w.info.Status}]
    IN IF ok THEN [w1 EXCEPT !.rdb = {}] ELSE w1

\* --------------------------------------------------- next expected event
\* nextExpectedEventFromStatus
nextExpectedEventFromStatus(st) ==
    CASE st = "KeysExchanged" -> "ETHLocked"
      [] st = "XMRLocked"     -> "ContractReady"
      [] OTHER                -> "None"

\* EventType.getStatus
getStatus(event) ==
    CASE event = "ETHLocked"     -> "KeysExchanged"
      [] event = "ContractReady" -> "XMRLocked"
      [] OTHER                   -> "Unknown"

\* swapState.setNextExpectedEvent: sets the event and the status it stands
\* for, then writes the record through the manager
setNextExpectedEvent(w, event, ok) ==
    WriteSwapToDB([w EXCEPT !.nextExpectedEvent = event,
                            !.info.Status = getStatus(event)], ok)

\* swapState.clearNextExpectedEvent: the swap has reached a terminal status
clearNextExpectedEvent(w, status) ==
    [w EXCEPT !.nextExpectedEvent = "None", !.info.Status = status]

\* ------------------------------------------------------------- construction
\* variant of generateAndSetKeys that drops the error of PutSwapPrivateKey
generateAndSetKeys_DropPutError(w, genOk, putOk) ==
    IF ~genOk THEN [w EXCEPT !.err = "KeyGenFailed"]
    ELSE [RdbPut([w EXCEPT !.privkeys = TRUE], "our-spend", putOk) EXCEPT !.err = Nil]

\* swapState.generateAndSetKeys
generateAndSetKeys(w, genOk, putOk) ==
    IF ~genOk THEN [w EXCEPT !.err = "KeyGenFailed"]
    ELSE RdbPut([w EXCEPT !.privkeys = TRUE], "our-spend", putOk)

\* newSwapState: tx sender, watchers, per-swap context, goroutines
newSwapState(w, senderOk, watcherOk) ==
    IF ~senderOk THEN [w EXCEPT !.err = "SenderFailed"]
    ELSE IF ~watcherOk THEN [w EXCEPT !.cancelled = TRUE, !.err = "WatcherFailed"]
    ELSE [w EXCEPT !.nextExpectedEvent = nextExpectedEventFromStatus(w.info.Status),
                   !.hpc = "idle", !.eventCh = <<>>, !.err = Nil]

\* newSwapStateFromStart; in.relayer is "no" (UseRelayer unset), "ok" or "fail"
newSwapStateFromStart(w, in) ==
    LET w1 == IF in.relayer = "no" THEN [w EXCEPT !.err = Nil]
              ELSE RdbPut(w, "relayer-info", in.relayer = "ok")
    IN IF w1.err # Nil THEN [w1 EXCEPT !.pc = "failed"]
       ELSE IF ~in.heightOk THEN [w1 EXCEPT !.pc = "failed", !.err = "GetHeightFailed"]
       ELSE IF ~in.headerOk THEN [w1 EXCEPT !.pc = "failed", !.err = "HeaderFailed"]
       ELSE LET w2 == AddSwap([w1 EXCEPT !.info = [Status |-> "KeysExchanged", EndTime |-> FALSE]],
                              in.addOk)
            IN IF w2.err # Nil THEN [w2 EXCEPT !.pc = "failed"]
               ELSE LET w3 == newSwapState(w2, in.senderOk, in.watcherOk)
                    IN IF w3.err # Nil THEN [w3 EXCEPT !.pc = "failed"]
                       ELSE LET w4 == generateAndSetKeys(w3, in.genOk, in.putKeyOk)
                            IN IF w4.err # Nil THEN [w4 EXCEPT !.pc = "failed"]
                               ELSE [w4 EXCEPT !.pc = "constructed"]

\* swapState.setXMRTakerKeys
setXMRTakerKeys(w, ok) ==
    RdbPut([w EXCEPT !.takerKeys = TRUE], "cp-keys", ok)

\* ------------------------------------------------------------------ Monero
\* XMRClient.Transfer to the joint address
Transfer(w, ok) ==
    IF ok THEN [w EXCEPT !.xmr = "locked", !.err = Nil]
          ELSE [w EXCEPT !.err = "TransferFailed"]

\* protocol.ClaimMonero: sweeps the joint output to the primary address
ClaimMonero(w, ok) ==
    IF ok /\ w.xmr = "locked" THEN [w EXCEPT !.xmr = "swept", !.err = Nil]
                              ELSE [w EXCEPT !.err = "SweepFailed"]

\* variant of lockFunds that issues the Transfer although setNextExpectedEvent failed
lockFunds_DropPersistError(w, balOk, dbOk, xferOk) ==
    LET entry(x, issued) ==
            [persisted |-> (x.db.Status = "XMRLocked"), persistFailed |-> (balOk /\ ~dbOk),
             ownKey |-> ("our-spend" \in x.rdb),
             transfer |-> issued, locked |-> (x.xmr = "locked"), err |-> x.err,
             status |-> x.info.Status, next |-> x.nextExpectedEvent]
        log(x, issued) == [x EXCEPT !.lockLog = x.lockLog \cup {entry(x, issued)}]
    IN IF ~balOk THEN log([w EXCEPT !.err = "GetBalanceFailed"], FALSE)
       ELSE log(Transfer(setNextExpectedEvent(w, "ContractReady", dbOk), xferOk), TRUE)

\* variant of lockFunds that records the XMR-locked state only after a
\* successful Transfer
lockFunds_RecordAfterTransfer(w, balOk, dbOk, xferOk) ==
    LET entry(x, issued) ==
            [persisted |-> (x.db.Status = "XMRLocked"), persistFailed |-> (balOk /\ ~dbOk),
             ownKey |-> ("our-spend" \in x.rdb),
             transfer |-> issued, locked |-> (x.xmr = "locked"), err |-> x.err,
             status |-> x.info.Status, next |-> x.nextExpectedEvent]
        log(x, issued) == [x EXCEPT !.lockLog = x.lockLog \cup {entry(x, issued)}]
    IN IF ~balOk THEN log([w EXCEPT !.err = "GetBalanceFailed"], FALSE)
       ELSE LET w1 == Transfer(w, xferOk)
            IN IF w1.err # Nil THEN log(w1, TRUE)
               ELSE log(setNextExpectedEvent(w1, "ContractReady", dbOk), TRUE)

\* swapState.lockFunds
lockFunds(w, balOk, dbOk, xferOk) ==
    LET entry(x, issued) ==
            [persisted |-> (x.db.Status = "XMRLocked"), persistFailed |-> (balOk /\ ~dbOk),
             ownKey |-> ("our-spend" \in x.rdb),
             transfer |-> issued, locked |-> (x.xmr = "locked"), err |-> x.err,
             status |-> x.info.Status, next |-> x.nextExpectedEvent]
        log(x, issued) == [x EXCEPT !.lockLog = x.lockLog \cup {entry(x, issued)}]
    IN IF ~balOk THEN log([w EXCEPT !.err = "GetBalanceFailed"], FALSE)
       ELSE LET w1 == setNextExpectedEvent(w, "ContractReady", dbOk)
            IN IF w1.err # Nil THEN log(w1, FALSE)
               ELSE log(Transfer(w1, xferOk), TRUE)

\* variant of reclaimMonero that sweeps although PutCounterpartySwapPrivateKey failed
reclaimMonero_DropPutError(w, putOk, getOk, sweepOk) ==
    LET entry(x, tried) ==
            [cpKey |-> ("cp-spend" \in x.rdb), putFailed |-> ~putOk, sweep |-> tried,
             swept |-> (x.xmr = "swept"), err |-> x.err]
        log(x, tried) == [x EXCEPT !.reclaimLog = x.reclaimLog \cup {entry(x, tried)}]
        w1 == [RdbPut(w, "cp-spend", putOk) EXCEPT !.err = Nil]
    IN IF ~w1.takerKeys /\ ~(getOk /\ "cp-keys" \in w1.rdb)
         THEN log([w1 EXCEPT !.err = "GetCounterpartyKeysFailed"], FALSE)
       ELSE log(ClaimMonero([w1 EXCEPT !.takerKeys = TRUE], sweepOk), TRUE)

\* swapState.reclaimMonero
reclaimMonero(w, putOk, getOk, sweepOk) ==
    LET entry(x, tried) ==
            [cpKey |-> ("cp-spend" \in x.rdb), putFailed |-> ~putOk, sweep |-> tried,
             swept |-> (x.xmr = "swept"), err |-> x.err]
        log(x, tried) == [x EXCEPT !.reclaimLog = x.reclaimLog \cup {entry(x, tried)}]
        w1 == RdbPut(w, "cp-spend", putOk)
    IN IF w1.err # Nil THEN log(w1, FALSE)
       ELSE IF ~w1.takerKeys /\ ~(getOk /\ "cp-keys" \in w1.rdb)
              THEN log([w1 EXCEPT !.err = "GetCounterpartyKeysFailed"], FALSE)
       ELSE log(ClaimMonero([w1 EXCEPT !.takerKeys = TRUE], sweepOk), TRUE)

\* --------------------------------------------------------------- handlers
\* swapState.claimFunds: claim(contract_swap, secret) on the contract
claimFunds(w, ok) ==
    IF ok /\ w.chain \in {"Pending", "Ready"}
      THEN [w EXCEPT !.chain = "Claimed", !.err = Nil]
      ELSE [w EXCEPT !.err = "ClaimFailed"]

\* swapState.handleEventContractReady
handleEventContractReady(w, claimOk) ==
    LET w1 == claimFunds(w, claimOk)
    IN IF w1.err # Nil THEN w1
       ELSE clearNextExpectedEvent(w1, "CompletedSuccess")

\* swapState.handleEventETHRefunded
handleEventETHRefunded(w, putOk, getOk, sweepOk) ==
    LET w1 == reclaimMonero(w, putOk, getOk, sweepOk)
    IN IF w1.err # Nil THEN w1
       ELSE clearNextExpectedEvent(w1, "CompletedRefund")

\* variant of the deferred function that deletes the offer whatever the status
exitDeferred_AlwaysDelete(w, putOk, delOk) ==
    LET w1 == CompleteOngoingSwap(w, putOk)
        ret(x) == [x EXCEPT !.err = w.err, !.hpc = "idle", !.exitRuns = x.exitRuns + 1]
    IN IF w1.err # Nil THEN ret(w1)
       ELSE LET w2 == [w1 EXCEPT !.offers = w1.offers \ {OfferID}]
                w3 == RdbDeleteSwap(w2, delOk)
            IN ret([w3 EXCEPT !.cancelled = TRUE,
                              !.cancelledWith = w3.cancelledWith \cup {w3.info.Status},
                              !.doneCloses = w3.doneCloses + 1])

\* the deferred function of swapState.exit; the error exit() returns is the
\* one its body set, so err is left as the body left it
exitDeferred(w, putOk, delOk) ==
    LET w1 == CompleteOngoingSwap(w, putOk)
        ret(x) == [x EXCEPT !.err = w.err, !.hpc = "idle", !.exitRuns = x.exitRuns + 1]
    IN IF w1.err # Nil THEN ret(w1)
       ELSE LET w2 == IF w1.info.Status # "CompletedSuccess"
                        THEN [w1 EXCEPT !.offers = w1.offers \cup {OfferID}]
                        ELSE [w1 EXCEPT !.offers = w1.offers \ {OfferID}]
                w3 == RdbDeleteSwap(w2, delOk)
            IN ret([w3 EXCEPT !.cancelled = TRUE,
                              !.cancelledWith = w3.cancelledWith \cup {w3.info.Status},
                              !.doneCloses = w3.doneCloses + 1])

\* swapState.exit up to the point where it returns or blocks on <-s.eventCh
exit(w, putOk, delOk) ==
    CASE w.nextExpectedEvent = "ETHLocked" ->
             exitDeferred([clearNextExpectedEvent(w, "CompletedAbort") EXCEPT !.err = Nil],
                          putOk, delOk)
      [] w.nextExpectedEvent = "ContractReady" ->
             [w EXCEPT !.hpc = "exitWait"]
      [] w.nextExpectedEvent = "None" ->
             exitDeferred([w EXCEPT !.err = Nil], putOk, delOk)
      [] OTHER ->
             exitDeferred([clearNextExpectedEvent(w, "CompletedAbort")
                              EXCEPT !.err = "UnexpectedMessageType"], putOk, delOk)

\* swapState.exit from the receive of the EventContractReadyType case on:
\* e is the event it took from the channel
exitResume(w, e, o) ==
    LET w1 == CASE e = "ETHRefunded"   -> handleEventETHRefunded(w, o.rdbOk, o.getOk, o.sweepOk)
                [] e = "ContractReady" -> handleEventContractReady(w, o.claimOk)
                [] OTHER               -> [w EXCEPT !.err = Nil]
    IN exitDeferred(w1, o.dbOk, o.delOk)

\* handleEvent, case EventETHLocked: check the taker's lock, keep the
\* contract swap for recovery, lock the XMR
handleEventETHLocked(w, o) ==
    IF w.nextExpectedEvent # "ETHLocked"
      THEN [w EXCEPT !.err = "UnexpectedEvent"]
    ELSE IF ~(o.match /\ w.chain \in {"Pending", "Ready"})
      THEN [w EXCEPT !.err = "InvalidETHLock"]
    ELSE LET w1 == RdbPut(w, "contract-info", o.rdbOk)
         IN IF w1.err # Nil THEN w1
            ELSE lockFunds([w1 EXCEPT !.contractSet = TRUE], o.balOk, o.dbOk, o.xferOk)

\* handleEvent, case EventContractReady
handleContractReady(w, o) ==
    IF w.nextExpectedEvent # "ContractReady"
      THEN [w EXCEPT !.err = "UnexpectedEvent"]
    ELSE LET w1 == handleEventContractReady(w, o.claimOk)
         IN IF w1.err # Nil THEN w1 ELSE exit(w1, o.dbOk, o.delOk)

\* handleEvent, case EventETHRefunded
handleETHRefunded(w, o) ==
    IF w.nextExpectedEvent # "ContractReady"
      THEN [w EXCEPT !.err = "UnexpectedEvent"]
    ELSE LET w1 == handleEventETHRefunded(w, o.rdbOk, o.getOk, o.sweepOk)
         IN IF w1.err # Nil THEN w1 ELSE exit(w1, o.dbOk, o.delOk)

\* ------------------------------------------------------------------ inputs
StartInputs == [relayer : {"no", "ok", "fail"}, heightOk : BOOLEAN, headerOk : BOOLEAN,
                addOk : BOOLEAN, senderOk : BOOLEAN, watcherOk : BOOLEAN,
                genOk : BOOLEAN, putKeyOk : BOOLEAN]

\* outcomes of the external calls a handler makes; a handler reads only the
\* fields of the calls it reaches
AllOk == [dbOk |-> TRUE, rdbOk |-> TRUE, delOk |-> TRUE, getOk |-> TRUE, balOk |-> TRUE,
          xferOk |-> TRUE, sweepOk |-> TRUE, claimOk |-> TRUE, match |-> TRUE]

ExitOutcomes == {[AllOk EXCEPT !.dbOk = a, !.delOk = b] : a, b \in BOOLEAN}

LockOutcomes ==
    {[AllOk EXCEPT !.match = a, !.rdbOk = b, !.balOk = c, !.dbOk = d, !.xferOk = e] :
        a, b, c, d, e \in BOOLEAN}

ReadyOutcomes == {[o EXCEPT !.claimOk = a] : o \in ExitOutcomes, a \in BOOLEAN}

RefundedOutcomes ==
    {[o EXCEPT !.rdbOk = a, !.getOk = b, !.sweepOk = c] : o \in ExitOutcomes, a, b, c \in BOOLEAN}

ResumeOutcomes == {[o EXCEPT !.claimOk = a] : o \in RefundedOutcomes, a \in BOOLEAN}

\* outcomes of the external calls of a recovery: all succeed, or one fails
RecoverOk == [bindOk |-> TRUE, stageOk |-> TRUE, logsOk |-> TRUE, putOk |-> TRUE,
              offerOk |-> TRUE, delOk |-> TRUE, senderOk |-> TRUE, watcherOk |-> TRUE,
              setOk |-> TRUE, sweepOk |-> TRUE, readOk |-> TRUE]

RecoverOutcomes == {RecoverOk} \cup {[RecoverOk EXCEPT ![f] = FALSE] : f \in DOMAIN RecoverOk}

\* --------------------------------------------------------------------- Init
Init ==
    /\ pc = "init" /\ hpc = "idle" /\ eventCh = <<>>
    /\ nextExpectedEvent = "None"
    /\ info = [Status |-> "Unknown", EndTime |-> FALSE]
    /\ privkeys = FALSE /\ takerKeys = FALSE /\ contractSet = FALSE
    /\ cancelled = FALSE /\ doneCloses = 0
    /\ ongoing = {} /\ past = {} /\ db = NoRecord /\ rdb = {} /\ offers = {}
    /\ xmr = "none" /\ chain = "Invalid" /\ err = Nil
    /\ exitsCalled = 0 /\ exitsReturned = 0 /\ peerMsgs = 0 /\ readyEvents = 0 /\ refundEvents = 0
    /\ lockLog = {} /\ reclaimLog = {} /\ purgedWith = {} /\ cancelledWith = {}
    /\ completeCalls = 0 /\ completeOK = 0 /\ exitRuns = 0
    /\ crashes = 0 /\ rop = NoRecovery /\ sm = NoSM /\ rly = NoRelay /\ cic = NoCheck /\ srv = NoServer /\ tc = NoContract
    /\ MgrIdle /\ RWIdle /\ SndIdle

\* ------------------------------------------------------------------ actions
\* the maker accepts a taker's initiation: newSwapStateFromStart
StartSwap ==
    /\ pc = "init"
    /\ \E in \in StartInputs : Set(newSwapStateFromStart(W, in))

\* the instance stores the taker's keys (setXMRTakerKeys) and the swap is live
SetTakerKeys ==
    /\ pc = "constructed"
    /\ \E ok \in BOOLEAN :
         LET w1 == setXMRTakerKeys(W, ok)
         IN Set([w1 EXCEPT !.pc = IF ok THEN "live" ELSE "failed"])

\* Exit(): the caller puts EventExit on the channel
ExitCall ==
    /\ pc = "live" /\ exitsCalled < MaxExits /\ Len(eventCh) < EventChCap
    /\ Set([W EXCEPT !.eventCh = Append(eventCh, "Exit"), !.exitsCalled = exitsCalled + 1])

\* the peer's NotifyETHLocked message becomes EventETHLocked
PeerNotifyETHLocked ==
    /\ pc = "live" /\ peerMsgs < MaxPeerMsgs /\ Len(eventCh) < EventChCap
    /\ Set([W EXCEPT !.eventCh = Append(eventCh, "ETHLocked"), !.peerMsgs = peerMsgs + 1])

\* runContractEventWatcher: a Ready log of this swap, or t0
WatchReady ==
    /\ pc = "live" /\ contractSet /\ ~cancelled
    /\ readyEvents < MaxLogEvents /\ Len(eventCh) < EventChCap
    /\ Set([W EXCEPT !.eventCh = Append(eventCh, "ContractReady"),
                     !.readyEvents = readyEvents + 1])

\* runContractEventWatcher: a Refunded log of this swap
WatchRefunded ==
    /\ pc = "live" /\ contractSet /\ ~cancelled /\ chain = "Refunded"
    /\ refundEvents < MaxLogEvents /\ Len(eventCh) < EventChCap
    /\ Set([W EXCEPT !.eventCh = Append(eventCh, "ETHRefunded"),
                     !.refundEvents = refundEvents + 1])

\* the event handler goroutine takes the next event (runHandleEvents)
Taken == [W EXCEPT !.eventCh = Tail(eventCh)]

\* the dispatcher sends exit()'s result on the reply channel of the Exit
\* event it was handling, once exit() has returned
replyExit(w) ==
    IF w.hpc = "idle" THEN [w EXCEPT !.exitsReturned = w.exitsReturned + 1] ELSE w

HandleExit ==
    /\ pc = "live" /\ hpc = "idle" /\ eventCh # <<>> /\ Head(eventCh) = "Exit"
    /\ \E o \in ExitOutcomes : Set(replyExit(exit(Taken, o.dbOk, o.delOk)))

HandleETHLocked ==
    /\ pc = "live" /\ hpc = "idle" /\ eventCh # <<>> /\ Head(eventCh) = "ETHLocked"
    /\ \E o \in LockOutcomes : Set(handleEventETHLocked(Taken, o))

HandleContractReady ==
    /\ pc = "live" /\ hpc = "idle" /\ eventCh # <<>> /\ Head(eventCh) = "ContractReady"
    /\ \E o \in ReadyOutcomes : Set(handleContractReady(Taken, o))

HandleETHRefunded ==
    /\ pc = "live" /\ hpc = "idle" /\ eventCh # <<>> /\ Head(eventCh) = "ETHRefunded"
    /\ \E o \in RefundedOutcomes : Set(handleETHRefunded(Taken, o))

\* exit(), blocked in the EventContractReadyType case, takes the next event itself
ExitResume ==
    /\ pc = "live" /\ hpc = "exitWait" /\ eventCh # <<>>
    /\ \E o \in ResumeOutcomes : Set(replyExit(exitResume(Taken, Head(eventCh), o)))

\* the taker's transactions on the contract
TakerNewSwap ==
    /\ pc = "live" /\ chain = "Invalid"
    /\ Set([W EXCEPT !.chain = "Pending"])

TakerSetReady ==
    /\ chain = "Pending"
    /\ Set([W EXCEPT !.chain = "Ready"])

TakerRefund ==
    /\ chain \in {"Pending", "Ready"}
    /\ Set([W EXCEPT !.chain = "Refunded"])

Next ==
    \/ StartSwap
    \/ SetTakerKeys
    \/ ExitCall
    \/ PeerNotifyETHLocked
    \/ WatchReady
    \/ WatchRefunded
    \/ HandleExit
    \/ HandleETHLocked
    \/ HandleContractReady
    \/ HandleETHRefunded
    \/ ExitResume
    \/ TakerNewSwap
    \/ TakerSetReady
    \/ TakerRefund

Spec == Init /\ [][Next]_vars

\* the same swap with its event handler goroutine scheduled fairly
ExitLiveSpec ==
    Spec /\ WF_vars(HandleExit \/ HandleETHLocked \/ HandleContractReady
                              \/ HandleETHRefunded \/ ExitResume)

\* ----------------------------------------------------- crash and recovery
\* contracts.Stage the contract reports for the swap
Stage(c) == IF c \in {"Claimed", "Refunded"} THEN "Completed" ELSE c

\* checkIfAlreadyClaimed: <<claimed, error>>
checkIfAlreadyClaimed(w, o) ==
    IF ~o.bindOk THEN <<FALSE, "NewSwapCreatorFailed">>
    ELSE IF ~o.stageOk THEN <<FALSE, "SwapsCallFailed">>
    ELSE CASE Stage(w.chain) = "Invalid" -> <<FALSE, "SwapDoesNotExist">>
           [] Stage(w.chain) \in {"Pending", "Ready"} -> <<FALSE, Nil>>
           [] OTHER -> IF ~o.logsOk THEN <<FALSE, "FilterLogsFailed">>
                       ELSE <<w.chain = "Claimed", Nil>>

\* offers.Manager.DeleteOffer
DeleteOffer(w, ok) ==
    IF ok THEN [w EXCEPT !.offers = w.offers \ {OfferID}, !.err = Nil]
          ELSE [w EXCEPT !.err = "DeleteOfferFailed"]

\* completeSwap, were it to leave the swap in the manager's ongoing map
completeSwap_NoManager(w, o) ==
    LET w1 == [w EXCEPT !.info.Status = "CompletedSuccess", !.err = Nil]
        w2 == DeleteOffer(w1, o.offerOk)
    IN IF w2.err # Nil THEN w2
       ELSE IF ~o.delOk THEN [RdbDeleteSwap(w2, FALSE) EXCEPT !.err = "DeleteSwapFailed"]
       ELSE [RdbDeleteSwap(w2, TRUE) EXCEPT !.err = Nil]

\* completeSwap (package xmrmaker, swap_state.go)
completeSwap(w, o) ==
    LET w1 == CompleteOngoingSwap([w EXCEPT !.info.Status = "CompletedSuccess", !.err = Nil],
                                  o.putOk)
    IN IF w1.err # Nil THEN w1
       ELSE LET w2 == DeleteOffer(w1, o.offerOk)
            IN IF w2.err # Nil THEN w2
               ELSE IF ~o.delOk THEN [RdbDeleteSwap(w2, FALSE) EXCEPT !.err = "DeleteSwapFailed"]
               ELSE [RdbDeleteSwap(w2, TRUE) EXCEPT !.err = Nil]

\* newSwapStateFromOngoing, were it to resume a swap whatever its status
newSwapStateFromOngoing_AnyStatus(w, e, o) ==
    LET c == checkIfAlreadyClaimed(w, o)
    IN IF c[2] # Nil THEN [w EXCEPT !.err = c[2]]
       ELSE IF c[1]
         THEN LET w1 == completeSwap(w, o)
              IN IF w1.err # Nil THEN w1 ELSE [w1 EXCEPT !.err = "AlreadyCompleted"]
       ELSE LET w1 == newSwapState(w, o.senderOk, o.watcherOk)
            IN IF w1.err # Nil THEN w1
               ELSE IF ~o.setOk THEN [w1 EXCEPT !.err = "SetContractFailed"]
               ELSE [w1 EXCEPT !.privkeys = TRUE, !.contractSet = TRUE,
                               !.sm = [watchFrom |-> e.StartNumber, contractSwapID |-> e.SwapID,
                                       t0 |-> e.Timeout0, t1 |-> e.Timeout1]]

\* newSwapStateFromOngoing, were it to start the watchers from the first block
newSwapStateFromOngoing_WatchFromGenesis(w, e, o) ==
    LET c == checkIfAlreadyClaimed(w, o)
    IN IF c[2] # Nil THEN [w EXCEPT !.err = c[2]]
       ELSE IF c[1]
         THEN LET w1 == completeSwap(w, o)
              IN IF w1.err # Nil THEN w1 ELSE [w1 EXCEPT !.err = "AlreadyCompleted"]
       ELSE IF w.info.Status # "XMRLocked"
         THEN [w EXCEPT !.err = "InvalidStageForRecovery"]
       ELSE LET w1 == newSwapState(w, o.senderOk, o.watcherOk)
            IN IF w1.err # Nil THEN w1
               ELSE IF ~o.setOk THEN [w1 EXCEPT !.err = "SetContractFailed"]
               ELSE [w1 EXCEPT !.privkeys = TRUE, !.contractSet = TRUE,
                               !.sm = [watchFrom |-> 1, contractSwapID |-> e.SwapID,
                                       t0 |-> e.Timeout0, t1 |-> e.Timeout1]]

\* newSwapStateFromOngoing
newSwapStateFromOngoing(w, e, o) ==
    LET c == checkIfAlreadyClaimed(w, o)
    IN IF c[2] # Nil THEN [w EXCEPT !.err = c[2]]
       ELSE IF c[1]
         THEN LET w1 == completeSwap(w, o)
              IN IF w1.err # Nil THEN w1 ELSE [w1 EXCEPT !.err = "AlreadyCompleted"]
       ELSE IF w.info.Status # "XMRLocked"
         THEN [w EXCEPT !.err = "InvalidStageForRecovery"]
       ELSE LET w1 == newSwapState(w, o.senderOk, o.watcherOk)
            IN IF w1.err # Nil THEN w1
               ELSE IF ~o.setOk THEN [w1 EXCEPT !.err = "SetContractFailed"]
               ELSE [w1 EXCEPT !.privkeys = TRUE, !.contractSet = TRUE,
                               !.sm = [watchFrom |-> e.StartNumber, contractSwapID |-> e.SwapID,
                                       t0 |-> e.Timeout0, t1 |-> e.Timeout1]]

\* Instance.completeSwap: the counterparty's spend key is already stored, so
\* the joint output is swept if it still holds the XMR and the swap completed
\* as refunded
instCompleteSwap(w, o) ==
    LET w1 == IF w.xmr = "swept" THEN [w EXCEPT !.err = Nil] ELSE ClaimMonero(w, o.sweepOk)
    IN IF w1.err # Nil THEN w1
       ELSE CompleteOngoingSwap([w1 EXCEPT !.info.Status = "CompletedRefund"], o.putOk)

\* Instance.createOngoingSwap for the record NewManager loaded: re-hydrates
\* the keys, the offer and the contract info, builds the state machine and
\* registers it when there was no error
createOngoingSwap(w, e, o) ==
    LET call(path) == [w EXCEPT !.rop = [path |-> path, stage |-> Stage(w.chain),
                                         claimed |-> (w.chain = "Claimed"),
                                         status |-> w.info.Status, e |-> e,
                                         envOk |-> (o = RecoverOk)],
                                !.readyEvents = 0, !.refundEvents = 0]
        done(x) == [x EXCEPT !.pc = IF x.err = Nil THEN "live" ELSE "unrecovered"]
    IN IF "cp-spend" \in w.rdb
         THEN [instCompleteSwap(call("shared-key"), o) EXCEPT !.pc = "unrecovered"]
       ELSE IF ~o.readOk \/ OfferID \notin w.offers
               \/ "contract-info" \notin w.rdb \/ "our-spend" \notin w.rdb
         THEN [call("rehydrate") EXCEPT !.pc = "unrecovered", !.err = "RecoveryDBFailed"]
       ELSE done(newSwapStateFromOngoing(call("ongoing"), e, o))

\* the daemon starts again: NewManager loads the ongoing record, the offer
\* manager loads the stored offers (the offer of a swap is deleted only after
\* the swap was written as completed), and the maker instance recovers the swap
restart(w, e, o) ==
    IF w.db = NoRecord \/ ~IsOngoing(w.db.Status)
      THEN [w EXCEPT !.pc = "unrecovered", !.rop = [NoRecovery EXCEPT !.path = "nothing"]]
      ELSE createOngoingSwap([w EXCEPT !.ongoing = {OfferID}, !.info = w.db,
                                       !.offers = {OfferID}], e, o)

\* the memory of a killed daemon: everything in it is gone, what is stored stays
crashed(w) ==
    [w EXCEPT !.pc = "crashed", !.hpc = "idle", !.eventCh = <<>>,
              !.nextExpectedEvent = "None",
              !.info = [Status |-> "Unknown", EndTime |-> FALSE],
              !.privkeys = FALSE, !.takerKeys = FALSE, !.contractSet = FALSE,
              !.cancelled = FALSE, !.doneCloses = 0, !.ongoing = {}, !.past = {},
              !.err = Nil, !.sm = NoSM, !.crashes = w.crashes + 1]

\* the daemon is killed between two steps
Crash ==
    /\ pc \in {"constructed", "live"} /\ crashes < MaxCrashes
    /\ Set(crashed(W))

\* a reorganisation drops the taker's new_swap transaction while the daemon is down
Reorg ==
    /\ pc = "crashed" /\ chain = "Pending"
    /\ Set([W EXCEPT !.chain = "Invalid"])

\* the daemon comes up again
Recover ==
    /\ pc = "crashed"
    /\ \E e \in EthSwapInfos, o \in RecoverOutcomes : Set(restart(W, e, o))

RecSpec == Init /\ [][Next \/ Crash \/ Reorg \/ Recover]_vars

\* ------------------------------------- crash and recovery, with progress
\* The calls of the maker succeed, the taker follows the protocol (sets the
\* contract ready once the XMR is locked, refunds before t0 when the maker
\* recorded the lock without locking), and everything but a crash is
\* eventually done.

\* the daemon is killed inside lockFunds after setNextExpectedEvent returned:
\* before Transfer was issued, or while it was happening (the XMR is locked or not)
CrashInLockFunds ==
    /\ pc = "live" /\ hpc = "idle" /\ eventCh # <<>> /\ Head(eventCh) = "ETHLocked"
    /\ nextExpectedEvent = "ETHLocked" /\ chain \in {"Pending", "Ready"}
    /\ crashes < MaxCrashes
    /\ \E locked \in BOOLEAN :
         LET w1 == RdbPut(Taken, "contract-info", TRUE)
             w2 == setNextExpectedEvent([w1 EXCEPT !.contractSet = TRUE], "ContractReady", TRUE)
         IN Set(crashed(Transfer(w2, locked)))

LiveStart ==
    /\ pc = "init"
    /\ \E in \in StartInputs :
         /\ in.relayer # "fail" /\ in.heightOk /\ in.headerOk /\ in.addOk
         /\ in.senderOk /\ in.watcherOk /\ in.genOk /\ in.putKeyOk
         /\ Set(newSwapStateFromStart(W, in))

LiveSetTakerKeys ==
    /\ pc = "constructed"
    /\ Set([setXMRTakerKeys(W, TRUE) EXCEPT !.pc = "live"])

LiveHandleETHLocked ==
    /\ pc = "live" /\ hpc = "idle" /\ eventCh # <<>> /\ Head(eventCh) = "ETHLocked"
    /\ Set(handleEventETHLocked(Taken, AllOk))

LiveHandleContractReady ==
    /\ pc = "live" /\ hpc = "idle" /\ eventCh # <<>> /\ Head(eventCh) = "ContractReady"
    /\ Set(handleContractReady(Taken, AllOk))

LiveHandleETHRefunded ==
    /\ pc = "live" /\ hpc = "idle" /\ eventCh # <<>> /\ Head(eventCh) = "ETHRefunded"
    /\ Set(handleETHRefunded(Taken, AllOk))

LiveRecover ==
    /\ pc = "crashed"
    /\ \E e \in EthSwapInfos : Set(restart(W, e, RecoverOk))

LiveTakerSetReady ==
    /\ chain = "Pending" /\ xmr = "locked"
    /\ Set([W EXCEPT !.chain = "Ready"])

LiveTakerRefund ==
    /\ chain = "Pending" /\ xmr = "none" /\ db.Status = "XMRLocked"
    /\ Set([W EXCEPT !.chain = "Refunded"])

LiveSteps ==
    \/ LiveStart
    \/ LiveSetTakerKeys
    \/ PeerNotifyETHLocked
    \/ TakerNewSwap
    \/ LiveHandleETHLocked
    \/ WatchReady
    \/ WatchRefunded
    \/ LiveHandleContractReady
    \/ LiveHandleETHRefunded
    \/ LiveRecover
    \/ LiveTakerSetReady
    \/ LiveTakerRefund

RecLiveSpec == Init /\ [][LiveSteps \/ Crash \/ CrashInLockFunds]_vars /\ WF_vars(LiveSteps)

\* ------------------------------------------ the logs checkIfAlreadyClaimed reads
\* a log of the contract: its first topic, whether a reorganisation removed
\* it, and its swap-id topic: the persisted swap id ("own"), the id of
\* another swap ("other"), or no such topic ("missing", a malformed log)
ChainLogs == [topic : {"Claimed", "Refunded"}, removed : BOOLEAN,
              id : {"own", "other", "missing"}]

\* pcommon.CheckSwapID for the Claimed topic and the persisted swap id
CheckSwapID(l) ==
    IF l.id = "missing" THEN "InvalidLog"
    ELSE IF l.id # "own" THEN "LogNotForUs"
    ELSE Nil

\* checkIfAlreadyClaimed: the loop over the logs
RECURSIVE foundClaimed(_)
foundClaimed(logs) ==
    IF logs = <<>> THEN FALSE
    ELSE LET l == Head(logs)
         IN IF l.topic # "Claimed" THEN foundClaimed(Tail(logs))
            ELSE IF l.removed THEN foundClaimed(Tail(logs))
            ELSE IF CheckSwapID(l) = "LogNotForUs" THEN foundClaimed(Tail(logs))
            ELSE TRUE

\* checkIfAlreadyClaimed on a stage and the logs from the persisted start block
checkClaimedLogs(stage, logs, o) ==
    LET r(c, e) == [called |-> TRUE, stage |-> stage, logs |-> logs, claimed |-> c, err |-> e]
    IN IF ~o.bindOk THEN r(FALSE, "NewSwapCreatorFailed")
       ELSE IF ~o.stageOk THEN r(FALSE, "SwapsCallFailed")
       ELSE CASE stage = "Invalid" -> r(FALSE, "SwapDoesNotExist")
              [] stage \in {"Pending", "Ready"} -> r(FALSE, Nil)
              [] OTHER -> IF ~o.logsOk THEN r(FALSE, "FilterLogsFailed")
                          ELSE r(foundClaimed(logs), Nil)

CheckIfAlreadyClaimedCall ==
    /\ ~cic.called
    /\ \E stage \in {"Invalid", "Pending", "Ready", "Completed"}, 
          logs \in UNION {[1..n -> ChainLogs] : n \in 0..MaxLogs},
          o \in {RecoverOk, [RecoverOk EXCEPT !.bindOk = FALSE],
                 [RecoverOk EXCEPT !.stageOk = FALSE], [RecoverOk EXCEPT !.logsOk = FALSE]} :
         Set([W EXCEPT !.cic = checkClaimedLogs(stage, logs, o)])

LogSpec == Init /\ [][CheckIfAlreadyClaimedCall]_vars

\* -------------------------------------------------------- the RPC server
\* AllNamespaces
AllNamespaces == {"daemon", "database", "net", "personal", "swap"}

\* NewServer: the loop over cfg.Namespaces, err as it stands after each name
RECURSIVE registerServices(_, _, _)
registerServices(order, fail, e) ==
    IF order = <<>> THEN e
    ELSE LET ns == Head(order)
             e1 == IF ns = "daemon" THEN e
                   ELSE IF ns \in AllNamespaces
                     THEN (IF ns = fail THEN "RegisterFailed" ELSE Nil)
                   ELSE "UnknownNamespace"
         IN registerServices(Tail(order), fail, e1)

\* rpc.NewServer
NewServer(order, fail, daemonOk, listenOk) ==
    LET r == [NoServer EXCEPT !.called = TRUE, !.order = order, !.fail = fail,
                              !.daemonOk = daemonOk]
        e == registerServices(order, fail, Nil)
    IN IF ~daemonOk THEN [r EXCEPT !.err = "RegisterFailed"]
       ELSE IF e # Nil THEN [r EXCEPT !.err = e, !.cancelled = TRUE]
       ELSE IF ~listenOk THEN [r EXCEPT !.err = "ListenFailed", !.cancelled = TRUE]
       ELSE [r EXCEPT !.listening = TRUE, !.server = TRUE]

\* NewServer is called with a namespace set, iterated in some order
NewServerCall ==
    /\ ~srv.called
    /\ \E n \in 0..MaxNamespaces :
         \E order \in [1..n -> AllNamespaces \cup {"bogus"}] :
           /\ \A i, j \in 1..n : i # j => order[i] # order[j]
           /\ \E fail \in (AllNamespaces \ {"daemon"}) \cup {"none"},
                 daemonOk \in BOOLEAN, listenOk \in BOOLEAN :
                Set([W EXCEPT !.srv = NewServer(order, fail, daemonOk, listenOk)])

RpcSpec == Init /\ [][NewServerCall]_vars

\* ------------------------------------------- the contract swap and its clock
\* variant of the contract whose claim has no upper time limit
contractCall_ClaimAnyTime(c, op, d0, d1) ==
    LET r(okay, x) == [x EXCEPT !.last = op, !.ok = okay, !.at = c.now, !.pre = c.stage]
    IN CASE op = "newSwap" ->
              IF c.stage = "Invalid"
                THEN r(TRUE, [c EXCEPT !.stage = "Pending", !.t0 = c.now + d0,
                                       !.t1 = c.now + d0 + d1])
                ELSE r(FALSE, c)
         [] op = "setReady" ->
              IF c.stage = "Pending" THEN r(TRUE, [c EXCEPT !.stage = "Ready"]) ELSE r(FALSE, c)
         [] op = "claim" ->
              IF c.stage = "Ready" \/ (c.stage = "Pending" /\ c.now >= c.t0)
                THEN r(TRUE, [c EXCEPT !.stage = "Completed"])
                ELSE r(FALSE, c)
         [] OTHER ->
              IF c.stage \in {"Pending", "Ready"} /\ c.now >= c.t1
                THEN r(TRUE, [c EXCEPT !.stage = "Completed"])
                ELSE r(FALSE, c)

\* SwapCreator: newSwap(t0 duration, t1 duration), setReady, claim, refund
\* called at block time c.now
contractCall(c, op, d0, d1) ==
    LET r(okay, x) == [x EXCEPT !.last = op, !.ok = okay, !.at = c.now, !.pre = c.stage]
    IN CASE op = "newSwap" ->
              IF c.stage = "Invalid"
                THEN r(TRUE, [c EXCEPT !.stage = "Pending", !.t0 = c.now + d0,
                                       !.t1 = c.now + d0 + d1])
                ELSE r(FALSE, c)
         [] op = "setReady" ->
              IF c.stage = "Pending" THEN r(TRUE, [c EXCEPT !.stage = "Ready"]) ELSE r(FALSE, c)
         [] op = "claim" ->
              IF (c.stage = "Ready" \/ (c.stage = "Pending" /\ c.now >= c.t0)) /\ c.now < c.t1
                THEN r(TRUE, [c EXCEPT !.stage = "Completed"])
                ELSE r(FALSE, c)
         [] OTHER ->
              IF c.stage \in {"Pending", "Ready"} /\ c.now >= c.t1
                THEN r(TRUE, [c EXCEPT !.stage = "Completed"])
                ELSE r(FALSE, c)

\* a block is mined
Tick ==
    /\ tc.now < MaxTime
    /\ Set([W EXCEPT !.tc = [tc EXCEPT !.now = tc.now + 1]])

\* the taker (newSwap, setReady, refund) or the maker (claim) sends a transaction
ContractCall ==
    \E op \in {"newSwap", "setReady", "claim", "refund"}, d0 \in 1..MaxDur, d1 \in 1..MaxDur :
      /\ op # "newSwap" => (d0 = 1 /\ d1 = 1)
      /\ Set([W EXCEPT !.tc = contractCall(tc, op, d0, d1)])

TimeSpec == Init /\ [][Tick \/ ContractCall]_vars

\* ------------------------------------------------------------ the relayer
\* variant of ValidateAndSendTransaction that submits without simulating
ValidateAndSendTransaction_NoSimulation(w, valid, sendOk) ==
    LET r == [w.rly EXCEPT !.calls = @ + 1, !.valid = valid]
    IN IF ~valid THEN [w EXCEPT !.rly = [r EXCEPT !.resp = "ValidationFailed"]]
       ELSE IF ~sendOk THEN [w EXCEPT !.rly = [r EXCEPT !.resp = "SendFailed"]]
       ELSE IF w.chain \in {"Pending", "Ready"}
         THEN [w EXCEPT !.chain = "Claimed",
                        !.rly = [r EXCEPT !.submitted = @ + 1, !.logs = @ + 1, !.resp = "ok"]]
       ELSE [w EXCEPT !.rly = [r EXCEPT !.submitted = @ + 1, !.resp = "ok"]]

\* relayer.ValidateAndSendTransaction for a claim request: validate the
\* request, simulate the forwarded claim against the contract, submit it
ValidateAndSendTransaction(w, valid, sendOk) ==
    LET r == [w.rly EXCEPT !.calls = @ + 1, !.valid = valid]
    IN IF ~valid THEN [w EXCEPT !.rly = [r EXCEPT !.resp = "ValidationFailed"]]
       ELSE IF w.chain \notin {"Pending", "Ready"}
         THEN [w EXCEPT !.rly = [r EXCEPT !.resp = "SimulationFailed"]]
       ELSE IF ~sendOk THEN [w EXCEPT !.rly = [r EXCEPT !.resp = "SendFailed"]]
       ELSE [w EXCEPT !.chain = "Claimed",
                      !.rly = [r EXCEPT !.submitted = @ + 1, !.logs = @ + 1, !.resp = "ok"]]

\* a claim request (swap and secret) reaches the relayer
RelayClaim ==
    /\ rly.calls < MaxRelayCalls
    /\ chain # "Invalid"
    /\ \E valid \in BOOLEAN, sendOk \in BOOLEAN :
         Set(ValidateAndSendTransaction(W, valid, sendOk))

RlySpec == Init /\ [][Next \/ RelayClaim]_vars

\* ------------------------------------------- the manager on its own: state
\* the manager record the operators below transform
MW == [up |-> mgrUp, heap |-> heap, ongoing |-> mOngoing, past |-> mPast, db |-> mdb,
       ret |-> mret]

MSet(m, op) ==
    /\ mgrUp' = m.up /\ heap' = m.heap /\ mOngoing' = m.ongoing /\ mPast' = m.past
    /\ mdb' = m.db /\ mret' = m.ret /\ mop' = op
    /\ UNCHANGED <<swapVars, rwVars, sndVars>>

\* keys of one of the manager's maps
Keys(map) == {i \in OfferIDs : map[i] # 0}

\* pointers not in use
FreePtrs(m) == {p \in Ptrs : m.heap[p] = NoInfo}
NewPtr(m) == CHOOSE p \in FreePtrs(m) : \A q \in FreePtrs(m) : p <= q

\* what the database keeps of an Info, and the Info it gives back for an id
Stored(o) == [Status |-> o.Status, EndTime |-> o.EndTime]
Loaded(id, rec) == [OfferID |-> id, Status |-> rec.Status, EndTime |-> rec.EndTime]

\* a returned *Info, and a returned Info value (a copy)
PtrHandle(p) == [kind |-> "ptr", ptr |-> p, val |-> NoInfo]
CopyHandle(o) == [kind |-> "copy", ptr |-> 0, val |-> o]

Ret(e) == [NoRet EXCEPT !.err = e]

\* the elements of a set of offer ids as an array
RECURSIVE SeqOf(_)
SeqOf(S) ==
    IF S = {} THEN <<>>
    ELSE LET x == CHOOSE y \in S : \A z \in S : y <= z
         IN <<x>> \o SeqOf(S \ {x})

\* -------------------------------------- the manager on its own: operations
\* Database.PutSwap(info), keyed by info.OfferID
mgrPutSwap(m, p, ok) ==
    IF ok THEN [m EXCEPT !.db[m.heap[p].OfferID] = Stored(m.heap[p]), !.ret = Ret(Nil)]
          ELSE [m EXCEPT !.ret = Ret("StorageFailed")]

\* Database.GetAllSwaps: the ids that have a record
StoredIDs(m) == {i \in OfferIDs : m.db[i] # NoRecord}

\* NewManager, were it to keep every stored record whatever its status
mgrNewManager_LoadAll(m, ok) ==
    LET og == StoredIDs(m)
        rank(i) == Cardinality({j \in og : j <= i})
        empty == [i \in OfferIDs |-> 0]
    IN IF ~ok
         THEN [m EXCEPT !.up = FALSE, !.heap = [p \in Ptrs |-> NoInfo], !.ongoing = empty,
                        !.past = empty, !.ret = Ret("GetAllSwapsFailed")]
         ELSE [m EXCEPT !.up = TRUE,
                        !.heap = [p \in Ptrs |->
                                    IF \E i \in og : rank(i) = p
                                      THEN LET i == CHOOSE j \in og : rank(j) = p
                                           IN Loaded(i, m.db[i])
                                      ELSE NoInfo],
                        !.ongoing = [i \in OfferIDs |-> IF i \in og THEN rank(i) ELSE 0],
                        !.past = empty,
                        !.ret = Ret(Nil)]

\* NewManager
mgrNewManager(m, ok) ==
    LET og == {i \in StoredIDs(m) : IsOngoing(m.db[i].Status)}
        rank(i) == Cardinality({j \in og : j <= i})
        empty == [i \in OfferIDs |-> 0]
    IN IF ~ok
         THEN [m EXCEPT !.up = FALSE, !.heap = [p \in Ptrs |-> NoInfo], !.ongoing = empty,
                        !.past = empty, !.ret = Ret("GetAllSwapsFailed")]
         ELSE [m EXCEPT !.up = TRUE,
                        !.heap = [p \in Ptrs |->
                                    IF \E i \in og : rank(i) = p
                                      THEN LET i == CHOOSE j \in og : rank(j) = p
                                           IN Loaded(i, m.db[i])
                                      ELSE NoInfo],
                        !.ongoing = [i \in OfferIDs |-> IF i \in og THEN rank(i) ELSE 0],
                        !.past = empty,
                        !.ret = Ret(Nil)]

\* manager.AddSwap, were it to file every record as ongoing
mgrAddSwap_AlwaysOngoing(m, p, ok) ==
    mgrPutSwap([m EXCEPT !.ongoing[m.heap[p].OfferID] = p], p, ok)

\* manager.AddSwap
mgrAddSwap(m, p, ok) ==
    LET id == m.heap[p].OfferID
        m1 == IF IsOngoing(m.heap[p].Status)
                THEN [m EXCEPT !.ongoing[id] = p]
                ELSE [m EXCEPT !.past[id] = p]
    IN mgrPutSwap(m1, p, ok)

\* manager.WriteSwapToDB
mgrWriteSwapToDB(m, p, ok) == mgrPutSwap(m, p, ok)

\* manager.GetPastIDs
mgrGetPastIDs(m, ok) ==
    LET ids == Keys(m.past) \cup {i \in StoredIDs(m) : ~IsOngoing(m.db[i].Status)}
    IN IF ~ok THEN [m EXCEPT !.ret = Ret("StorageFailed")]
       ELSE [m EXCEPT !.ret = [Ret(Nil) EXCEPT !.ids = SeqOf(ids), !.read = TRUE]]

\* manager.getSwapFromDB: not found, a read error, or the record
getSwapFromDB(m, id, ok) ==
    IF m.db[id] = NoRecord THEN "NoSwapWithID"
    ELSE IF ~ok THEN "StorageFailed"
    ELSE Nil

\* manager.GetPastSwap, were it to return what it loaded without keeping it
mgrGetPastSwap_NoCache(m, id, ok) ==
    IF m.past[id] # 0
      THEN [m EXCEPT !.ret = [Ret(Nil) EXCEPT !.h = PtrHandle(m.past[id])]]
    ELSE LET e == getSwapFromDB(m, id, ok)
             p == NewPtr(m)
         IN IF e # Nil THEN [m EXCEPT !.ret = [Ret(e) EXCEPT !.read = TRUE]]
            ELSE [m EXCEPT !.heap[p] = Loaded(id, m.db[id]),
                           !.ret = [Ret(Nil) EXCEPT !.h = PtrHandle(p), !.read = TRUE]]

\* manager.GetPastSwap
mgrGetPastSwap(m, id, ok) ==
    IF m.past[id] # 0
      THEN [m EXCEPT !.ret = [Ret(Nil) EXCEPT !.h = PtrHandle(m.past[id])]]
    ELSE LET e == getSwapFromDB(m, id, ok)
             p == NewPtr(m)
         IN IF e # Nil THEN [m EXCEPT !.ret = [Ret(e) EXCEPT !.read = TRUE]]
            ELSE [m EXCEPT !.heap[p] = Loaded(id, m.db[id]),
                           !.past[id] = p,
                           !.ret = [Ret(Nil) EXCEPT !.h = PtrHandle(p), !.read = TRUE]]

\* manager.GetOngoingSwap
mgrGetOngoingSwap(m, id) ==
    IF m.ongoing[id] = 0 THEN [m EXCEPT !.ret = Ret("NoSwapWithID")]
    ELSE [m EXCEPT !.ret = [Ret(Nil) EXCEPT !.h = CopyHandle(m.heap[m.ongoing[id]])]]

\* manager.GetOngoingSwaps, were it to hand out the stored pointers
mgrGetOngoingSwaps_Pointers(m) ==
    [m EXCEPT !.ret = [Ret(Nil) EXCEPT !.hs =
        [i \in OfferIDs |-> IF m.ongoing[i] # 0 THEN PtrHandle(m.ongoing[i]) ELSE NoHandle]]]

\* manager.GetOngoingSwaps
mgrGetOngoingSwaps(m) ==
    [m EXCEPT !.ret = [Ret(Nil) EXCEPT !.hs =
        [i \in OfferIDs |-> IF m.ongoing[i] # 0 THEN CopyHandle(m.heap[m.ongoing[i]])
                                               ELSE NoHandle]]]

\* manager.CompleteOngoingSwap, were it to leave the end time unset
mgrCompleteOngoingSwap_NoEndTime(m, p, ok) ==
    LET id == m.heap[p].OfferID
    IN IF m.ongoing[id] = 0 THEN [m EXCEPT !.ret = Ret("NoSwapWithID")]
       ELSE mgrPutSwap([m EXCEPT !.past[id] = p, !.ongoing[id] = 0], p, ok)

\* manager.CompleteOngoingSwap, were it to stamp the end time before the lookup
mgrCompleteOngoingSwap_StampFirst(m, p, ok) ==
    LET id == m.heap[p].OfferID
        m1 == [m EXCEPT !.heap[p].EndTime = TRUE]
    IN IF m.ongoing[id] = 0 THEN [m1 EXCEPT !.ret = Ret("NoSwapWithID")]
       ELSE mgrPutSwap([m1 EXCEPT !.past[id] = p, !.ongoing[id] = 0], p, ok)

\* manager.CompleteOngoingSwap
mgrCompleteOngoingSwap(m, p, ok) ==
    LET id == m.heap[p].OfferID
    IN IF m.ongoing[id] = 0 THEN [m EXCEPT !.ret = Ret("NoSwapWithID")]
       ELSE mgrPutSwap([m EXCEPT !.heap[p].EndTime = TRUE,
                                 !.past[id] = p,
                                 !.ongoing[id] = 0], p, ok)

\* manager.HasOngoingSwap
mgrHasOngoingSwap(m, id) == [m EXCEPT !.ret = [Ret(Nil) EXCEPT !.has = (m.ongoing[id] # 0)]]

\* the caller assigns fields of a record a call returned to it: through the
\* pointer when it got a pointer, in its own copy when it got a value
modifyReturned(m, which) ==
    LET h == IF which = 0 THEN m.ret.h ELSE m.ret.hs[which]
        set(o) == [o EXCEPT !.Status = "CompletedSuccess", !.EndTime = TRUE]
    IN IF h.kind = "ptr" THEN [m EXCEPT !.heap[h.ptr] = set(m.heap[h.ptr])]
       ELSE IF which = 0 THEN [m EXCEPT !.ret.h.val = set(h.val)]
       ELSE [m EXCEPT !.ret.hs[which].val = set(h.val)]

\* ----------------------------------------- the manager on its own: actions
Op(n) == [NoOp EXCEPT !.name = n]

\* the daemon starts (or restarts): what was in memory is gone
NewManagerCall ==
    \E ok \in BOOLEAN :
      /\ Cardinality({i \in StoredIDs(MW) : IsOngoing(mdb[i].Status)}) <= MaxInfos
      /\ MSet(mgrNewManager(MW, ok), [Op("NewManager") EXCEPT !.ok = ok])

\* a caller builds an Info (swap.NewInfo)
NewInfoCall ==
    \* the statuses callers give their Info objects: one ongoing, one terminal
    \E id \in OfferIDs, st \in {"XMRLocked", "CompletedSuccess"} :
      /\ mgrUp /\ FreePtrs(MW) # {}
      /\ MSet([MW EXCEPT !.heap[NewPtr(MW)] = [OfferID |-> id, Status |-> st, EndTime |-> FALSE]],
              [Op("NewInfo") EXCEPT !.id = id, !.ptr = NewPtr(MW)])

\* a caller moves an Info it holds to a terminal status (Info.SetStatus)
SetStatusCall ==
    \E p \in Ptrs :
      /\ mgrUp /\ heap[p] # NoInfo /\ IsOngoing(heap[p].Status)
      /\ MSet([MW EXCEPT !.heap[p].Status = "CompletedSuccess"],
              [Op("SetStatus") EXCEPT !.ptr = p])

AddSwapCall ==
    \E p \in Ptrs, ok \in BOOLEAN :
      /\ mgrUp /\ heap[p] # NoInfo
      /\ MSet(mgrAddSwap(MW, p, ok),
              [Op("AddSwap") EXCEPT !.ptr = p, !.id = heap[p].OfferID, !.ok = ok])

WriteSwapToDBCall ==
    \E p \in Ptrs, ok \in BOOLEAN :
      /\ mgrUp /\ heap[p] # NoInfo
      /\ MSet(mgrWriteSwapToDB(MW, p, ok),
              [Op("WriteSwapToDB") EXCEPT !.ptr = p, !.id = heap[p].OfferID, !.ok = ok])

CompleteOngoingSwapCall ==
    \E p \in Ptrs, ok \in BOOLEAN :
      /\ mgrUp /\ heap[p] # NoInfo
      /\ MSet(mgrCompleteOngoingSwap(MW, p, ok),
              [Op("CompleteOngoingSwap") EXCEPT !.ptr = p, !.id = heap[p].OfferID, !.ok = ok])

GetPastSwapCall ==
    \E id \in OfferIDs, ok \in BOOLEAN :
      /\ mgrUp
      /\ mPast[id] # 0 \/ getSwapFromDB(MW, id, ok) # Nil \/ FreePtrs(MW) # {}
      /\ ok \/ (mPast[id] = 0 /\ mdb[id] # NoRecord)
      /\ MSet(mgrGetPastSwap(MW, id, ok), [Op("GetPastSwap") EXCEPT !.id = id, !.ok = ok])

GetPastIDsCall ==
    \E ok \in BOOLEAN :
      /\ mgrUp
      /\ MSet(mgrGetPastIDs(MW, ok), [Op("GetPastIDs") EXCEPT !.ok = ok])

GetOngoingSwapCall ==
    \E id \in OfferIDs :
      /\ mgrUp
      /\ MSet(mgrGetOngoingSwap(MW, id), [Op("GetOngoingSwap") EXCEPT !.id = id])

GetOngoingSwapsCall ==
    /\ mgrUp
    /\ MSet(mgrGetOngoingSwaps(MW), Op("GetOngoingSwaps"))

HasOngoingSwapCall ==
    \E id \in OfferIDs :
      /\ mgrUp
      /\ MSet(mgrHasOngoingSwap(MW, id), [Op("HasOngoingSwap") EXCEPT !.id = id])

\* the caller writes into the record the last call returned
ModifyReturned ==
    \E which \in {0} \cup OfferIDs :
      LET h == IF which = 0 THEN mret.h ELSE mret.hs[which]
      IN /\ mgrUp /\ h.kind # "none"
         /\ mop.name \in {"GetPastSwap", "GetOngoingSwap", "GetOngoingSwaps"}
         /\ MSet(modifyReturned(MW, which), [Op("Modify") EXCEPT !.id = which, !.ptr = h.ptr])

MgrNext ==
    \/ NewManagerCall
    \/ NewInfoCall
    \/ SetStatusCall
    \/ AddSwapCall
    \/ WriteSwapToDBCall
    \/ CompleteOngoingSwapCall
    \/ GetPastSwapCall
    \/ GetPastIDsCall
    \/ GetOngoingSwapCall
    \/ GetOngoingSwapsCall
    \/ HasOngoingSwapCall
    \/ ModifyReturned

MgrSpec == Init /\ [][MgrNext]_vars

\* ------------------------------------- the manager's maps under its RWMutex
\* what each call does to the lock and the maps, in program order; the calls
\* that branch on what a map holds have one sequence per branch
RWProg ==
    [AddSwapOngoing       |-> <<"Lock", "w:ongoing", "Unlock">>,
     AddSwapPast          |-> <<"Lock", "w:past", "Unlock">>,
     CompleteFound        |-> <<"Lock", "r:ongoing", "w:past", "w:ongoing", "Unlock">>,
     CompleteNotFound     |-> <<"Lock", "r:ongoing", "Unlock">>,
     GetPastIDs           |-> <<"RLock", "r:past", "RUnlock">>,
     GetPastSwapHit       |-> <<"RLock", "r:past", "RUnlock">>,
     GetPastSwapMiss      |-> <<"RLock", "r:past", "w:past", "RUnlock">>,
     GetPastSwapNotFound  |-> <<"RLock", "r:past", "RUnlock">>,
     GetOngoingSwap       |-> <<"RLock", "r:ongoing", "RUnlock">>,
     GetOngoingSwaps      |-> <<"RLock", "r:ongoing", "RUnlock">>,
     HasOngoingSwap       |-> <<"RLock", "r:ongoing", "RUnlock">>]

\* the step a thread is at
RWStep(t) == RWProg[th[t].op][th[t].i]

RWAdvance(t) ==
    th' = [th EXCEPT ![t] = IF th[t].i = Len(RWProg[th[t].op]) THEN NoCall
                            ELSE [th[t] EXCEPT !.i = th[t].i + 1, !.acc = "none"]]

\* a goroutine enters one of the manager's methods
RWCall(t) ==
    /\ th[t].op = "none"
    /\ \E c \in DOMAIN RWProg : th' = [th EXCEPT ![t] = [op |-> c, i |-> 1, acc |-> "none"]]
    /\ UNCHANGED <<rwWriter, rwReaders, swapVars, mgrVars, sndVars>>

\* m.Lock()
RWLock(t) ==
    /\ th[t].op # "none" /\ RWStep(t) = "Lock"
    /\ rwWriter = 0 /\ rwReaders = {}
    /\ rwWriter' = t
    /\ RWAdvance(t)
    /\ UNCHANGED <<rwReaders, swapVars, mgrVars, sndVars>>

\* m.RLock()
RWRLock(t) ==
    /\ th[t].op # "none" /\ RWStep(t) = "RLock"
    /\ rwWriter = 0
    /\ rwReaders' = rwReaders \cup {t}
    /\ RWAdvance(t)
    /\ UNCHANGED <<rwWriter, swapVars, mgrVars, sndVars>>

\* a map access begins
RWBegin(t) ==
    /\ th[t].op # "none" /\ RWStep(t) \in {"r:ongoing", "w:ongoing", "r:past", "w:past"}
    /\ th[t].acc = "none"
    /\ th' = [th EXCEPT ![t].acc = RWStep(t)]
    /\ UNCHANGED <<rwWriter, rwReaders, swapVars, mgrVars, sndVars>>

\* a map access ends
RWEnd(t) ==
    /\ th[t].op # "none" /\ th[t].acc # "none"
    /\ RWAdvance(t)
    /\ UNCHANGED <<rwWriter, rwReaders, swapVars, mgrVars, sndVars>>

\* the deferred m.Unlock()
RWUnlock(t) ==
    /\ th[t].op # "none" /\ RWStep(t) = "Unlock"
    /\ rwWriter' = 0
    /\ RWAdvance(t)
    /\ UNCHANGED <<rwReaders, swapVars, mgrVars, sndVars>>

\* the deferred m.RUnlock()
RWRUnlock(t) ==
    /\ th[t].op # "none" /\ RWStep(t) = "RUnlock"
    /\ rwReaders' = rwReaders \ {t}
    /\ RWAdvance(t)
    /\ UNCHANGED <<rwWriter, swapVars, mgrVars, sndVars>>

RWNext ==
    \E t \in Threads :
      \/ RWCall(t)
      \/ RWLock(t)
      \/ RWRLock(t)
      \/ RWBegin(t)
      \/ RWEnd(t)
      \/ RWUnlock(t)
      \/ RWRUnlock(t)

RWSpec == Init /\ [][RWNext]_vars

\* ---------------------------------------------------- the external sender
\* NewExternalSender: the value it leaves in the package variable
NewExternalSender(tt, env) ==
    IF env \in {"Mainnet", "Stagenet"} THEN MainTimeout ELSE tt

\* variant of NewSwap without the ERC-20 check
sndNewSwap_NoTokenCheck(cl, packOk) ==
    IF ~packOk THEN [cl EXCEPT !.pc = "done", !.ret = "PackError"]
    ELSE [cl EXCEPT !.pc = "lock"]

\* ExternalSender.NewSwap up to s.Lock()
sndNewSwap(cl, packOk) ==
    IF cl.token THEN [cl EXCEPT !.pc = "done", !.ret = "Unsupported"]
    ELSE IF ~packOk THEN [cl EXCEPT !.pc = "done", !.ret = "PackError"]
    ELSE [cl EXCEPT !.pc = "lock"]

\* SetReady, Claim, Refund up to s.Lock() in sendAndReceive
sndPack(cl, packOk) ==
    IF ~packOk THEN [cl EXCEPT !.pc = "done", !.ret = "PackError"]
    ELSE [cl EXCEPT !.pc = "lock"]

\* variant of the timeout branch that returns without the deferred Unlock
selectTimeout_KeepLock(cl, sd) ==
    [call |-> [cl EXCEPT !.pc = "done", !.ret = "SignTimeout"], snd |-> sd]

\* select, case <-time.After(transactionTimeout): return errTransactionTimeout,
\* then the deferred s.Unlock()
selectTimeout(cl, sd) ==
    [call |-> [cl EXCEPT !.pc = "done", !.ret = "SignTimeout"],
     snd |-> [sd EXCEPT !.holder = 0]]

\* block.WaitForReceipt and the return, then the deferred s.Unlock()
waitForReceipt(cl, sd, ok) ==
    [call |-> [cl EXCEPT !.pc = "done", !.ret = IF ok THEN "Receipt" ELSE "ReceiptError"],
     snd |-> [sd EXCEPT !.holder = 0]]

NewExternalSenderCall ==
    \E s \in Senders, env \in {"Development", "Stagenet", "Mainnet"} :
      /\ ~snd[s].up
      /\ \A r \in Senders : r < s => snd[r].up
      /\ snd' = [snd EXCEPT ![s] = [up |-> TRUE, env |-> env, holder |-> 0]]
      /\ transactionTimeout' = NewExternalSender(transactionTimeout, env)
      /\ UNCHANGED <<scall, fe, swapVars, mgrVars, rwVars>>

\* a goroutine calls NewSwap, SetReady, Claim or Refund on a sender
SndCall(c) ==
    /\ scall[c].pc = "idle"
    /\ \E s \in Senders, op \in {"NewSwap", "SetReady", "Claim", "Refund"}, token \in BOOLEAN, packOk \in BOOLEAN :
         /\ snd[s].up
         /\ token => op = "NewSwap"
         /\ LET cl == [scall[c] EXCEPT !.s = s, !.op = op, !.token = token]
            IN scall' = [scall EXCEPT ![c] = IF op = "NewSwap" THEN sndNewSwap(cl, packOk)
                                                              ELSE sndPack(cl, packOk)]
    /\ UNCHANGED <<transactionTimeout, snd, fe, swapVars, mgrVars, rwVars>>

\* s.Lock()
SndLock(c) ==
    /\ scall[c].pc = "lock"
    /\ snd[scall[c].s].holder = 0
    /\ snd' = [snd EXCEPT ![scall[c].s].holder = c]
    /\ scall' = [scall EXCEPT ![c].pc = "send", ![c].locked = TRUE]
    /\ UNCHANGED <<transactionTimeout, fe, swapVars, mgrVars, rwVars>>

\* s.out <- tx on the unbuffered channel: completes when the front-end receives
FrontRead(c) ==
    /\ scall[c].pc = "send"
    /\ scall' = [scall EXCEPT ![c].pc = "sent", ![c].sent = TRUE]
    /\ fe' = [fe EXCEPT ![scall[c].s] = @ \cup {c}]
    /\ UNCHANGED <<transactionTimeout, snd, swapVars, mgrVars, rwVars>>

\* the select statement is entered: time.After(transactionTimeout) is evaluated
SndStartTimer(c) ==
    /\ scall[c].pc = "sent"
    /\ scall' = [scall EXCEPT ![c].pc = "select", ![c].timer = transactionTimeout]
    /\ UNCHANGED <<transactionTimeout, snd, fe, swapVars, mgrVars, rwVars>>

\* the timer fires before a hash arrived
SndTimeout(c) ==
    /\ scall[c].pc = "select"
    /\ LET r == selectTimeout(scall[c], snd[scall[c].s])
       IN /\ scall' = [scall EXCEPT ![c] = r.call]
          /\ snd' = [snd EXCEPT ![scall[c].s] = r.snd]
    /\ UNCHANGED <<transactionTimeout, fe, swapVars, mgrVars, rwVars>>

\* txHash = <-s.in: the front-end sends the hash of a transaction it submitted
FrontSubmit(c) ==
    /\ scall[c].pc = "select"
    /\ \E d \in fe[scall[c].s] :
         /\ fe' = [fe EXCEPT ![scall[c].s] = @ \ {d}]
         /\ scall' = [scall EXCEPT ![c].pc = "receipt", ![c].waited = TRUE, ![c].hashOf = d]
    /\ UNCHANGED <<transactionTimeout, snd, swapVars, mgrVars, rwVars>>

SndReceipt(c) ==
    /\ scall[c].pc = "receipt"
    /\ \E ok \in BOOLEAN :
         LET r == waitForReceipt(scall[c], snd[scall[c].s], ok)
         IN /\ scall' = [scall EXCEPT ![c] = r.call]
            /\ snd' = [snd EXCEPT ![scall[c].s] = r.snd]
    /\ UNCHANGED <<transactionTimeout, fe, swapVars, mgrVars, rwVars>>

SndNext ==
    \/ NewExternalSenderCall
    \/ \E c \in Callers :
         \/ SndCall(c)
         \/ SndLock(c)
         \/ FrontRead(c)
         \/ SndStartTimer(c)
         \/ SndTimeout(c)
         \/ FrontSubmit(c)
         \/ SndReceipt(c)

SndSpec == Init /\ [][SndNext]_vars

\* the user never returns a transaction hash; the front-end may or may not
\* read the outbound channel; the goroutines and the timers run
SndLiveNext ==
    \/ NewExternalSenderCall
    \/ \E c \in Callers :
         \/ SndCall(c)
         \/ SndLock(c)
         \/ FrontRead(c)
         \/ SndStartTimer(c)
         \/ SndTimeout(c)

SndLiveSpec ==
    /\ Init /\ [][SndLiveNext]_vars
    /\ \A c \in Callers :
         WF_vars(SndLock(c)) /\ WF_vars(SndStartTimer(c)) /\ WF_vars(SndTimeout(c))

\* ------------------------------------------------------------------ claims

\* the swap has left the manager's ongoing map for the past map
Completed == OfferID \in past /\ OfferID \notin ongoing

\* C1: Exit is a safe exit: a swap that ended in Abort never transferred XMR,
\* and the swap is never completed in the manager while the XMR is locked
\* and neither the claim nor the reclaim of the XMR has succeeded.
C1_ExitIsSafe ==
    /\ (info.Status = "CompletedAbort" => xmr = "none")
    /\ ~(Completed /\ xmr = "locked" /\ chain # "Claimed")

\* C2: every Transfer issued by lockFunds finds next-expected-event =
\* ContractReady (status XMRLocked) already in the database; a lockFunds call
\* whose write of it failed returned an error and issued no Transfer.
C2_PersistBeforeTransfer ==
    \A l \in lockLog :
        /\ l.transfer => l.persisted /\ ~l.persistFailed
        /\ l.persistFailed => ~l.transfer /\ l.err # Nil

C2_Witness == \E l \in lockLog : l.transfer /\ l.persisted /\ l.locked

C4_KeyBeforeTransfer ==
    /\ \A l \in lockLog : l.transfer => l.ownKey
    /\ (privkeys /\ "our-spend" \notin rdb /\ purgedWith = {}) => pc = "failed"
    /\ pc = "failed" => lockLog = {}

C4_Witness == \E l \in lockLog : l.transfer /\ l.ownKey

\* C5: reclaimMonero attempts the sweep only with the taker's disclosed spend
\* key in the recovery database; when that write failed it attempted no sweep
\* and returned the error.
C5_PersistBeforeSweep ==
    \A l \in reclaimLog :
        /\ l.sweep => l.cpKey /\ ~l.putFailed
        /\ l.putFailed => ~l.sweep /\ l.err # Nil

C5_Witness == \E l \in reclaimLog : l.sweep /\ l.cpKey /\ l.swept

\* C6: RecoveryDB.DeleteSwap is called only once the swap has reached a
\* successful terminal status, never at Abort or at a status still ongoing.
C6_PurgeOnlyOnSuccess == purgedWith \subseteq {"CompletedSuccess", "CompletedRefund"}

\* C7: CompleteOngoingSwap succeeds at most once and done is closed at most
\* once; an Exit event handled when the next expected event is None changes
\* nothing of the swap, the manager, the databases or the offers.
C7_AtMostOneTerminal ==
    [][ /\ completeOK' <= 1
        /\ doneCloses' <= 1
        /\ ( /\ pc = "live" /\ nextExpectedEvent = "None" /\ hpc = "idle"
             /\ eventCh # <<>> /\ Head(eventCh) = "Exit" /\ eventCh' = Tail(eventCh) )
           => UNCHANGED <<nextExpectedEvent, info, ongoing, past, db, rdb, offers, cancelled,
                          doneCloses, completeOK, xmr, chain, purgedWith, cancelledWith>>
      ]_vars

C7_Witness ==
    /\ completeOK = 1 /\ doneCloses = 1 /\ nextExpectedEvent = "None"
    /\ exitRuns >= 2 /\ exitsCalled >= 2 /\ eventCh = <<>>

\* C8: whenever the swap is gone from the ongoing map, its record with the
\* end time has been written to the database.
C8_WrittenBeforeRemoved == Completed => db.EndTime

\* C9: once exit() has returned with the swap in a terminal status, done is
\* closed, the context is cancelled and the manager was asked to complete.
C9_TerminalCleanup ==
    (exitRuns > 0 /\ info.Status \in Terminal)
        => (doneCloses > 0 /\ cancelled /\ completeCalls > 0)

\* C10: exit() runs s.cancel() only at a terminal status.
C10_CancelOnlyTerminal == cancelledWith \subseteq Terminal

\* ------------------------------------------------- claims about the manager
\* the record behind a returned handle
Deref(h) == IF h.kind = "ptr" THEN heap[h.ptr] ELSE h.val

\* the record the past map holds for each id
PastView == [i \in OfferIDs |-> IF mPast[i] # 0 THEN heap[mPast[i]] ELSE NoInfo]

\* C11: an offer id has a persisted Swap Info with an ongoing status if and
\* only if it is a key of the manager's ongoing map
C11_OngoingIffPersistedOngoing ==
    mgrUp => \A i \in OfferIDs :
               (mdb[i] # NoRecord /\ IsOngoing(mdb[i].Status)) <=> (mOngoing[i] # 0)

\* C12: after a CompleteOngoingSwap that succeeded the id is absent from the
\* ongoing map, present in the past map with an end time, and that same
\* record is the one persistence holds
C12_CompleteMovesAndPersists ==
    (mop.name = "CompleteOngoingSwap" /\ mret.err = Nil) =>
        /\ mOngoing[mop.id] = 0
        /\ mPast[mop.id] = mop.ptr
        /\ heap[mop.ptr].EndTime
        /\ mdb[mop.id] = Stored(heap[mop.ptr])

C12_Witness == mop.name = "CompleteOngoingSwap" /\ mret.err = Nil

\* C13: CompleteOngoingSwap for an id that is not in the ongoing map fails
\* with the not-found error and leaves both maps, persistence and the end
\* time of info as they were
C13_NotFoundChangesNothing ==
    [][\A p \in Ptrs :
         (/\ heap[p] # NoInfo /\ mOngoing[heap[p].OfferID] = 0
          /\ mop'.name = "CompleteOngoingSwap" /\ mop'.ptr = p)
         => /\ mret'.err = "NoSwapWithID"
            /\ mOngoing' = mOngoing /\ mPast' = mPast /\ mdb' = mdb
            /\ heap'[p].EndTime = heap[p].EndTime]_vars

C13_Witness == mop.name = "CompleteOngoingSwap" /\ mret.err = "NoSwapWithID"

\* C14: AddSwap puts info in the ongoing map exactly when its status is
\* ongoing and in the past map otherwise, writes it through to persistence,
\* and returns an error exactly when that write fails
C14_AddSwapFilesByStatus ==
    [][\A p \in Ptrs :
         (heap[p] # NoInfo /\ mop'.name = "AddSwap" /\ mop'.ptr = p)
         => LET id == heap[p].OfferID
            IN /\ IsOngoing(heap[p].Status) => (mOngoing'[id] = p /\ mPast' = mPast)
               /\ ~IsOngoing(heap[p].Status) => (mPast'[id] = p /\ mOngoing' = mOngoing)
               /\ mop'.ok => mdb' = [mdb EXCEPT ![id] = Stored(heap[p])]
               /\ (mret'.err # Nil) <=> ~mop'.ok]_vars

C14_Witness ==
    /\ mop.name = "AddSwap" /\ mret.err = Nil
    /\ ~IsOngoing(heap[mop.ptr].Status) /\ mPast[mop.id] = mop.ptr

\* what the three queries on ongoing swaps answer in the current state
OngoingAnswers ==
    [one |-> [i \in OfferIDs |-> LET r == mgrGetOngoingSwap(MW, i).ret
                                 IN <<r.err, Deref(r.h)>>],
     all |-> [i \in OfferIDs |-> Deref(mgrGetOngoingSwaps(MW).ret.hs[i])],
     has |-> [i \in OfferIDs |-> mgrHasOngoingSwap(MW, i).ret.has]]

\* C15: writing into a record that GetOngoingSwap or GetOngoingSwaps returned
\* changes nothing of what the queries on ongoing swaps answer afterwards, and
\* GetOngoingSwap for an id that is not ongoing returns the not-found error
C15_OngoingQueriesReturnCopies ==
    [][/\ (mop'.name = "Modify" /\ mop.name \in {"GetOngoingSwap", "GetOngoingSwaps"})
          => OngoingAnswers' = OngoingAnswers
       /\ \A i \in OfferIDs :
            (mop'.name = "GetOngoingSwap" /\ mop'.id = i /\ mOngoing[i] = 0)
            => mret'.err = "NoSwapWithID"]_vars

C15_Witness ==
    /\ mop.name = "Modify" /\ mop.id # 0 /\ mOngoing[mop.id] # 0
    /\ mret.hs[mop.id].kind = "copy"
    /\ mret.hs[mop.id].val # heap[mOngoing[mop.id]]

\* C16: writing into the record GetPastSwap returned changes neither the
\* record the past map holds nor what a later GetPastSwap returns
C16_PastSwapIsACopy ==
    [][(mop'.name = "Modify" /\ mop.name = "GetPastSwap") => PastView' = PastView]_vars

\* the map an access is on, and whether it writes
AccMap(a) == IF a \in {"r:ongoing", "w:ongoing"} THEN "ongoing" ELSE "past"
AccWrites(a) == a \in {"w:ongoing", "w:past"}

\* C17: every write to either map is made by the holder of the exclusive
\* lock, and no write to a map overlaps another access to the same map
C17_ReadersWriters ==
    /\ \A t \in Threads : AccWrites(th[t].acc) => rwWriter = t
    /\ \A t, u \in Threads :
         (t # u /\ th[t].acc # "none" /\ th[u].acc # "none"
          /\ AccMap(th[t].acc) = AccMap(th[u].acc))
         => ~AccWrites(th[t].acc) /\ ~AccWrites(th[u].acc)

\* C18: GetPastSwap answers from the past map without reading persistence
\* when the id is there; on a miss it loads the record, keeps it in the past
\* map and returns it, so that the next call does not read persistence; with
\* no record in persistence it returns the not-found error
C18_PastSwapCaches ==
    [][\A i \in OfferIDs :
         (mop'.name = "GetPastSwap" /\ mop'.id = i)
         => /\ mPast[i] # 0
                 => /\ mret'.err = Nil /\ ~mret'.read
                    /\ mret'.h.kind # "none" /\ Deref(mret'.h) = heap[mPast[i]]
            /\ (mPast[i] = 0 /\ mdb[i] = NoRecord) => mret'.err = "NoSwapWithID"
            /\ (mPast[i] = 0 /\ mdb[i] # NoRecord /\ mop'.ok)
                 => /\ mret'.err = Nil /\ mret'.read
                    /\ mPast'[i] # 0 /\ heap'[mPast'[i]] = Loaded(i, mdb[i])
                    /\ mret'.h = PtrHandle(mPast'[i])
                    /\ \A ok2 \in BOOLEAN : ~mgrGetPastSwap(MW', i, ok2).ret.read]_vars

C18_Witness == mop.name = "GetPastSwap" /\ mret.err = Nil /\ mret.read

\* the ids an array holds
Range(sq) == {sq[k] : k \in 1..Len(sq)}

\* C19: GetPastIDs returns, without duplicates, the keys of the past map
\* together with the ids whose persisted status is not ongoing, and never an
\* id for which HasOngoingSwap is true
C19_PastIDs ==
    (mop.name = "GetPastIDs" /\ mret.err = Nil) =>
        /\ Range(mret.ids) = Keys(mPast) \cup
                               {i \in OfferIDs : mdb[i] # NoRecord /\ ~IsOngoing(mdb[i].Status)}
        /\ Cardinality(Range(mret.ids)) = Len(mret.ids)
        /\ \A i \in Range(mret.ids) : ~mgrHasOngoingSwap(MW, i).ret.has

\* C20: NewManager puts in the ongoing map exactly the persisted records with
\* an ongoing status and starts with an empty past map; when reading all
\* swaps fails it fails and there is no manager
C20_NewManagerLoadsOngoing ==
    mop.name = "NewManager" =>
        IF mop.ok
          THEN /\ mgrUp /\ mret.err = Nil
               /\ Keys(mOngoing) = {i \in OfferIDs : mdb[i] # NoRecord /\ IsOngoing(mdb[i].Status)}
               /\ \A i \in Keys(mOngoing) : heap[mOngoing[i]] = Loaded(i, mdb[i])
               /\ Keys(mPast) = {}
          ELSE ~mgrUp /\ mret.err # Nil

C20_Witness ==
    /\ mop.name = "NewManager" /\ mop.ok
    /\ \E i, j \in OfferIDs : /\ mdb[i] # NoRecord /\ IsOngoing(mdb[i].Status)
                              /\ mdb[j] # NoRecord /\ ~IsOngoing(mdb[j].Status)

\* --------------------------------------------------- claims about recovery
\* the step in which the daemon recovers the swap through newSwapStateFromOngoing
RecoveryStep == pc = "crashed" /\ pc' # "crashed" /\ rop'.path = "ongoing"

\* C21: recovery of a swap whose contract stage is Completed and that has a
\* Claimed log builds no state machine and returns an error; when its calls
\* succeed the swap has status Success, has moved from ongoing to past, its
\* offer and recovery records are deleted and the error says that the swap
\* was already completed
C21_AlreadyClaimedCompletes ==
    (rop.path = "ongoing" /\ rop.stage = "Completed" /\ rop.claimed) =>
        /\ pc = "unrecovered" /\ sm = NoSM /\ nextExpectedEvent = "None" /\ err # Nil
        /\ rop.envOk => /\ info.Status = "CompletedSuccess" /\ db.Status = "CompletedSuccess"
                        /\ OfferID \notin ongoing /\ OfferID \in past
                        /\ OfferID \notin offers /\ rdb = {}
                        /\ err = "AlreadyCompleted"

C21_Witness ==
    /\ rop.path = "ongoing" /\ rop.stage = "Completed" /\ rop.claimed /\ rop.envOk
    /\ rop.status = "XMRLocked" /\ err = "AlreadyCompleted" /\ OfferID \in past

\* C22: recovery of an XMR-locked swap whose contract stage is Completed by
\* the taker's refund (no Claimed log) completes the swap during recovery,
\* with the XMR swept, and does not re-enter the live state machine
C22_RefundedCompletesSynthetically ==
    [][(/\ pc = "crashed" /\ pc' # "crashed" /\ rop'.path \in {"ongoing", "shared-key"}
        /\ rop'.status = "XMRLocked" /\ rop'.stage = "Completed" /\ ~rop'.claimed
        /\ rop'.envOk)
       => (pc' # "live" /\ info'.Status \in Terminal /\ xmr' # "locked")]_vars

\* C23: recovery of a swap with status XMRLocked and contract stage Pending
\* or Ready succeeds: the state machine is live, expects the event derived
\* from the persisted status, its watchers start from the persisted start
\* block, and its keys, contract swap id and timeouts are the persisted ones
C23_ResumesFromPersisted ==
    [][(/\ RecoveryStep /\ rop'.status = "XMRLocked"
        /\ rop'.stage \in {"Pending", "Ready"} /\ rop'.envOk)
       => /\ pc' = "live" /\ err' = Nil /\ hpc' = "idle" /\ ~cancelled'
          /\ nextExpectedEvent' = nextExpectedEventFromStatus(db.Status)
          /\ sm' = [watchFrom |-> rop'.e.StartNumber, contractSwapID |-> rop'.e.SwapID,
                    t0 |-> rop'.e.Timeout0, t1 |-> rop'.e.Timeout1]
          /\ privkeys' /\ contractSet' /\ "our-spend" \in rdb
          /\ readyEvents' = 0 /\ refundEvents' = 0]_vars

C23_Witness ==
    /\ pc = "live" /\ crashes > 0 /\ rop.status = "XMRLocked" /\ rop.stage = "Ready"
    /\ sm.watchFrom = 2 /\ nextExpectedEvent = "ContractReady"

\* C24: when recovery cannot resume the swap (contract stage Invalid, or a
\* status other than XMRLocked with no claim found) it returns an error, the
\* swap stays in the ongoing map, its persisted record, offer and recovery
\* records are kept, and no state machine is registered
C24_UnresumablePreserved ==
    [][(/\ RecoveryStep
        /\ \/ rop'.stage = "Invalid"
           \/ rop'.status # "XMRLocked" /\ ~(rop'.stage = "Completed" /\ rop'.claimed))
       => /\ err' # Nil /\ pc' = "unrecovered" /\ sm' = NoSM
          /\ OfferID \in ongoing' /\ OfferID \notin past'
          /\ db' = db /\ OfferID \in offers' /\ rdb' = rdb]_vars

C24_Witness ==
    /\ rop.path = "ongoing" /\ rop.status = "KeysExchanged" /\ rop.envOk
    /\ err = "InvalidStageForRecovery" /\ OfferID \in ongoing

\* C25: a maker killed after next-expected-event = ContractReady was
\* persisted and before the Ready log was handled (the Transfer call may not
\* have returned) is recovered, and the swap eventually claims and ends in Success
C25_CrashAfterLockSucceeds ==
    (pc = "crashed" /\ db.Status = "XMRLocked" /\ chain \in {"Pending", "Ready"})
      ~> (info.Status = "CompletedSuccess" /\ chain = "Claimed")

\* ------------------------------------------ claims about the external sender

\* C26: a call whose transaction was handed to the front-end and that gets no
\* hash before the timer fires returns the sign-timeout error, has waited for
\* no receipt, and has released the sender's lock
C26_SignTimeout ==
    [][\A c \in Callers :
         (scall[c].pc = "select" /\ scall'[c].pc # "select" /\ scall'[c].pc # "receipt")
           => /\ scall'[c].pc = "done" /\ scall'[c].ret = "SignTimeout"
              /\ scall'[c].sent /\ ~scall'[c].waited
              /\ snd'[scall[c].s].holder = 0]_vars

C26_Witness ==
    \E c, d \in Callers :
      /\ c # d /\ scall[c].s = scall[d].s
      /\ scall[c].ret = "SignTimeout" /\ scall[c].op = "Claim"
      /\ scall[d].locked /\ scall[d].op = "NewSwap" /\ scall[d].ret = "SignTimeout"

\* C27: when the user never returns a hash, every call that entered a sender
\* returns the sign-timeout error: it does not stay blocked on the outbound
\* channel or on the lock
C27_NeverBlocksForever ==
    \A c \in Callers :
      (scall[c].pc \in {"lock", "send", "sent", "select"})
        ~> (scall[c].pc = "done" /\ scall[c].ret = "SignTimeout")

\* C28: NewSwap with a token amount returns the unsupported error and has
\* not taken the lock, sent on the outbound channel, started a timer or
\* waited for a receipt
C28_TokenRejected ==
    \A c \in Callers :
      (scall[c].op = "NewSwap" /\ scall[c].token)
        => /\ scall[c].pc = "done" /\ scall[c].ret = "Unsupported"
           /\ ~scall[c].locked /\ ~scall[c].sent /\ ~scall[c].waited /\ scall[c].timer = 0
           /\ snd[scall[c].s].holder # c

C28_Witness ==
    \E c, d \in Callers :
      /\ scall[c].op = "NewSwap" /\ scall[c].token /\ scall[c].ret = "Unsupported"
      /\ scall[d].s = scall[c].s /\ scall[d].pc = "send"

\* C29: the timer of a call is the timeout of the environment its sender was
\* created for, whatever other senders were created
C29_TimeoutPerSender ==
    \A c \in Callers :
      scall[c].timer # 0 =>
        scall[c].timer = (IF snd[scall[c].s].env = "Development" THEN DevTimeout
                                                                ELSE MainTimeout)

\* ------------------------------------------------- claims about the relayer

\* C30: a relayed claim that succeeds leaves the contract swap Completed, and
\* a further valid claim request for the claimed swap fails on simulation,
\* submits nothing and leaves the contract and the swap status as they were;
\* the relayer's transactions carry at most one Claimed log
C30_ClaimAtMostOnce ==
    [][(rly'.calls = rly.calls + 1) =>
         /\ rly'.resp = "ok" => (chain \in {"Pending", "Ready"} /\ Stage(chain') = "Completed")
         /\ (chain = "Claimed" /\ rly'.valid) =>
               /\ rly'.resp = "SimulationFailed"
               /\ rly'.submitted = rly.submitted
               /\ chain' = chain /\ info' = info /\ db' = db
         /\ rly'.logs <= 1]_vars

C30_Witness ==
    /\ rly.calls = 2 /\ rly.valid /\ rly.submitted = 1 /\ rly.logs = 1
    /\ rly.resp = "SimulationFailed" /\ chain = "Claimed"

\* ------------------------------------- claims about events, offers, start

\* C32: an event is taken off the swap's event channel only when the handler
\* is between two events: the handling of one event is finished before the
\* next one is read
C32_OneEventAtATime ==
    [][(eventCh # <<>> /\ eventCh' = Tail(eventCh)) => hpc = "idle"]_vars

C37_FailedStartLeavesNoTrace ==
    (pc = "failed" /\ err \in {"SenderFailed", "WatcherFailed", "KeyGenFailed", "RecoveryDBFailed"}) =>
      /\ OfferID \notin ongoing
      /\ (db = NoRecord \/ ~IsOngoing(db.Status))
      /\ (nextExpectedEvent # "None" => cancelled)

\* C33: when a second Exit() is issued while the first is being handled with
\* next expected event ContractReady, both calls eventually return
C33_ExitReturns ==
    (hpc = "exitWait" /\ eventCh = <<"Exit">> /\ exitsCalled = 2) ~> (exitsReturned = 2)

\* ------------------------------------------ claims about the manager's maps

\* C38: no offer id is in the ongoing map and in the past map at once, and
\* every record held in the past map has a status that is not ongoing
C38_OngoingPastDisjoint ==
    \A i \in OfferIDs :
      /\ ~(mOngoing[i] # 0 /\ mPast[i] # 0)
      /\ mPast[i] # 0 => ~IsOngoing(heap[mPast[i]].Status)

\* ------------------------------------ claims about the external sender (2)

\* C36: the hash a call receives on the inbound channel is the front-end's
\* answer to the transaction this call put on the outbound channel
C36_HashIsOwn ==
    \A c \in Callers : scall[c].hashOf # 0 => scall[c].hashOf = c

\* ------------------------------------------ claims about checkIfAlreadyClaimed

\* C35: checkIfAlreadyClaimed, when it returns without error, returns true
\* exactly when the stage is Completed and the logs hold a Claimed log that is
\* not removed and whose swap-id topic is the persisted swap id
C35_ClaimedIffOwnLog ==
    (cic.called /\ cic.err = Nil) =>
      (cic.claimed <=>
         /\ cic.stage = "Completed"
         /\ \E k \in 1..Len(cic.logs) :
              /\ cic.logs[k].topic = "Claimed" /\ ~cic.logs[k].removed
              /\ cic.logs[k].id = "own")

\* ------------------------------------------------ claims about the RPC server

\* C39: when cfg.Namespaces holds an unknown namespace, or a service
\* registration fails, NewServer returns an error, has cancelled the server
\* context and has no listener, in whatever order the names were visited
C39_BadNamespaceFails ==
    (/\ srv.called
     /\ \/ ~srv.daemonOk
        \/ \E k \in 1..Len(srv.order) :
             \/ srv.order[k] \notin AllNamespaces
             \/ (srv.order[k] = srv.fail /\ srv.order[k] # "daemon"))
      => (srv.err # Nil /\ ~srv.server /\ srv.cancelled /\ ~srv.listening)

\* --------------------------------------------- claims about the time windows

\* C31 as stated: t0 < t1, a claim succeeds only from t0 on and before t1,
\* a refund succeeds only from t1 on
C31_Windows ==
    /\ tc.stage # "Invalid" => tc.t0 < tc.t1
    /\ (tc.ok /\ tc.last = "claim") => (tc.t0 <= tc.at /\ tc.at < tc.t1)
    /\ (tc.ok /\ tc.last = "refund") => tc.at >= tc.t1

\* C31: t0 < t1; a claim succeeds only before t1 and only when the swap is
\* Ready or t0 is reached; a refund succeeds only from t1 on
C31_WindowsOrReady ==
    /\ tc.stage # "Invalid" => tc.t0 < tc.t1
    /\ (tc.ok /\ tc.last = "claim") =>
         (tc.at < tc.t1 /\ (tc.pre = "Ready" \/ tc.t0 <= tc.at))
    /\ (tc.ok /\ tc.last = "refund") => tc.at >= tc.t1

C31_Witness ==
    /\ tc.ok /\ tc.last = "claim" /\ tc.pre = "Ready"
    /\ tc.at < tc.t0 /\ tc.stage = "Completed"

====
